---- MODULE Spec2Model ----
(***************************************************************************)
(* A model of the ossslim client (package ossslim): the signed request     *)
(* engine Request.do, the listing loop Request.list, the batch delete      *)
(* DeleteWithContext and DeleteRecursiveWithContext, and the single        *)
(* exchange operations Exists, Upload, Download and DownloadAsync.         *)
(*                                                                         *)
(* A Go string is a sequence of symbols; a symbol is a TLA+ string that    *)
(* stands for one character or for a run of characters the code never      *)
(* splits (a word, an XML tag).  "/" , " " and "\n" are single characters. *)
(* The remote service and the network are the environment: every exchange  *)
(* draws its outcome (transport failure, or a status with a body whose     *)
(* reading may fail) from a finite catalogue.                              *)
(***************************************************************************)
EXTENDS Integers, Sequences, FiniteSets, TLC

VARIABLES
    client,   \* the Client the caller constructed
    now,      \* the wall clock read by time.Now
    pc,       \* where the caller is: "idle", inside an operation, or "done"
    op,       \* the public operation called and its arguments
    req,      \* the Request the operation built
    frame,    \* arguments and locals of the running recursive invocation
    wire,     \* the HTTP exchanges performed so far, in order
    sink,     \* the caller's io.Writer (respBody)
    task,     \* the detached copy started by an async download
    ret,      \* what the operation returned to the caller
    parked,   \* the call of a second caller of the client while it does not run
    tool      \* the goroutines of the oss command: walker, workers and main

vars == <<client, now, pc, op, req, frame, wire, sink, task, ret, parked, tool>>

----------------------------------------------------------------------------
(* Bounds of the model *)

\* the clock takes the values 0..MaxTime
MaxTime == 1
\* an object (the body of an upload or of a download) holds at most MaxBody bytes
MaxBody == 2
\* a batch delete is given up to MaxChunks full chunks of keys (one key more or less)
MaxChunks == 2
\* a listing is answered with at most MaxPages pages
MaxPages == 2
\* the directory the oss command walks holds MaxFiles entries
MaxFiles == 3
\* the number of workers of the oss command: runtime.NumCPU()
Concurrency == 2

----------------------------------------------------------------------------
(* strings *)

Min(a, b) == IF a <= b THEN a ELSE b

\* strings.HasPrefix(s, "/")
HasSlashPrefix(s) == Len(s) > 0 /\ s[1] = "/"

\* strings.TrimPrefix(s, "/")
TrimPrefix(s) == IF HasSlashPrefix(s) THEN Tail(s) ELSE s

\* strings.TrimSuffix(s, "/")
TrimSuffix(s) == IF Len(s) > 0 /\ s[Len(s)] = "/" THEN SubSeq(s, 1, Len(s) - 1) ELSE s

\* strings.HasPrefix(s, p)
HasPrefix(s, p) == Len(p) <= Len(s) /\ SubSeq(s, 1, Len(p)) = p

IsSpace(c) == c \in {" ", "\n", "\t", "\r"}

\* strings.TrimSpace(s): s without its leading and trailing white space
TrimSpace(s) ==
    LET keep == {i \in 1..Len(s) : ~IsSpace(s[i])}
    IN  IF keep = {} THEN <<>>
        ELSE LET lo == CHOOSE i \in keep : \A j \in keep : i <= j
                 hi == CHOOSE i \in keep : \A j \in keep : j <= i
             IN  SubSeq(s, lo, hi)

\* strings.Trim(s, "/"): s without its leading and trailing slashes
TrimSlashes(s) ==
    LET keep == {i \in 1..Len(s) : s[i] # "/"}
    IN  IF keep = {} THEN <<>>
        ELSE LET lo == CHOOSE i \in keep : \A j \in keep : i <= j
                 hi == CHOOSE i \in keep : \A j \in keep : j <= i
             IN  SubSeq(s, lo, hi)

----------------------------------------------------------------------------
(* errors *)

\* a nil error
Nil == [kind |-> "nil", text |-> <<>>]

\* errors.New(text)
ErrorsNew(text) == [kind |-> "errorString", text |-> text]

\* the *url.Error http.Client.Do returns when no response was obtained
TransportError == [kind |-> "url.Error", text |-> <<"dial tcp: connection refused">>]

\* the error of a failed Read of a response body
ReadError == [kind |-> "read", text |-> <<"unexpected EOF">>]

\* io.EOF, what a decoder returns on an empty input
EOF == [kind |-> "io.EOF", text |-> <<"EOF">>]

\* the *xml.SyntaxError of a document that ends early or is no XML
XMLSyntaxError == [kind |-> "xml.SyntaxError", text |-> <<"XML syntax error">>]

----------------------------------------------------------------------------
(* Client and Request *)

\* the new Request of a public operation: the fields not named are zero
Request == [
    Response              |-> [present |-> FALSE, StatusCode |-> 0],
    ResponseContentLength |-> [set |-> FALSE, val |-> 0],
    remote      |-> <<>>,
    canonRes    |-> <<>>,
    queries     |-> <<>>,
    contentType |-> <<>>,
    method      |-> <<>>,
    date        |-> <<>>,
    contentMd5  |-> <<>>,
    reqBody     |-> [present |-> FALSE, data |-> <<>>],
    hasSink     |-> FALSE,
    async       |-> FALSE ]

\* the content type do falls back to
OctetStream == <<"application", "/", "octet-stream">>

\* base64.StdEncoding.EncodeToString: the empty input encodes to the empty string
Base64(bytes) == IF bytes = <<>> THEN <<>> ELSE <<"base64", bytes>>

\* md5.New().Write(data).Sum(nil): a digest is never empty
MD5(data) == <<"md5", data>>

\* time.Now().UTC().Format("Mon, 02 Jan 2006 15:04:05 GMT"), the clock in seconds
FormatDate(t) == <<"Thu, 01 Jan 1970 00:00:", ToString(t), " GMT">>

\* Request.getRemote
getRemote(r) == IF ~HasSlashPrefix(r.remote) THEN <<"/">> \o r.remote ELSE r.remote

\* the keys of url.Values in the order Encode writes them (sorted)
SortedQueryKeys == <<"delimiter", "marker", "max-keys", "prefix", "x-oss-process">>

\* url.QueryEscape on the symbols of the model: a slash is escaped
QueryEscape(s) == [i \in 1..Len(s) |-> IF s[i] = "/" THEN "%2F" ELSE s[i]]

RECURSIVE JoinPairs(_, _, _)
\* k=v pairs of q for the keys ks, joined by "&"; esc says whether values are escaped
JoinPairs(q, ks, esc) ==
    IF ks = <<>> THEN <<>>
    ELSE LET k    == Head(ks)
             pair == <<k, "=">> \o (IF esc THEN QueryEscape(q[k]) ELSE q[k])
         IN  IF Len(ks) = 1 THEN pair ELSE pair \o <<"&">> \o JoinPairs(q, Tail(ks), esc)

\* url.Values.Encode
Encode(q) == JoinPairs(q, SelectSeq(SortedQueryKeys, LAMBDA k : k \in DOMAIN q), TRUE)

\* Request.URL
URL(c, r) ==
    LET url == TrimSuffix(c.Prefix) \o getRemote(r)
        qs  == Encode(r.queries)
    IN  IF qs = <<>> THEN url ELSE url \o <<"?">> \o qs

\* Client.URL
ClientURL(c, remote) ==
    TrimSuffix(c.Prefix) \o (IF ~HasSlashPrefix(remote) THEN <<"/">> \o remote ELSE remote)

\* the orders in which a range over the map req.queries may visit its keys
KeyOrders(q) ==
    {o \in [1..Cardinality(DOMAIN q) -> DOMAIN q] : \A i, j \in DOMAIN o : i # j => o[i] # o[j]}

\* Request.queryString, the map visited in the order given
queryString(r, order) ==
    IF DOMAIN r.queries = {} THEN <<>> ELSE <<"?">> \o JoinPairs(r.queries, order, FALSE)

\* Request.canonicalizedResource
canonicalizedResource(c, r, order) ==
    IF r.canonRes # <<>> THEN <<"/">> \o c.Bucket \o r.canonRes
    ELSE <<"/">> \o c.Bucket \o getRemote(r) \o queryString(r, order)

\* SignedMessage that leaves the content fingerprint out
SignedMessage_NoDigest(c, r, order) ==
    <<r.method, <<>>, r.contentType, r.date, canonicalizedResource(c, r, order)>>

\* the five lines Request.signature joins with "\n"
SignedMessage(c, r, order) ==
    <<r.method, r.contentMd5, r.contentType, r.date, canonicalizedResource(c, r, order)>>

\* base64 of the HMAC-SHA1 of msg under key
HMAC(key, msg) == <<"hmac-sha1", key, msg>>

\* Request.signature
signature(c, r, order) == HMAC(c.AccessKeySecret, SignedMessage(c, r, order))

----------------------------------------------------------------------------
(* the structured error document *)

StartTags == {"<Error>", "<Code>", "<Message>", "<RequestId>", "<html>"}

\* xml.Unmarshal(body, &responseError{}): ok is false when it returns an error
UnmarshalError(body) ==
    LET starts == {i \in 1..Len(body) : body[i] \in StartTags}
        bad    == [ok |-> FALSE, Message |-> <<>>]
    IN  IF starts = {} THEN bad
        ELSE LET i0   == CHOOSE i \in starts : \A j \in starts : i <= j
                 ends == {j \in (i0 + 1)..Len(body) : body[j] = "</Error>"}
             IN  IF body[i0] # "<Error>" \/ ends = {} THEN bad
                 ELSE LET j0 == CHOOSE j \in ends : \A k \in ends : j <= k
                          ms == {m \in (i0 + 1)..(j0 - 1) : body[m] = "<Message>"}
                      IN  IF ms = {} THEN [ok |-> TRUE, Message |-> <<>>]
                          ELSE LET m0 == CHOOSE m \in ms : \A k \in ms : k <= m
                                   cs == {k \in (m0 + 1)..(j0 - 1) : body[k] = "</Message>"}
                               IN  IF cs = {} THEN bad
                                   ELSE LET c0 == CHOOSE k \in cs : \A l \in cs : k <= l
                                        IN  [ok |-> TRUE, Message |-> SubSeq(body, m0 + 1, c0 - 1)]

\* ErrorOfBody that never looks for the Message of the document
ErrorOfBody_AlwaysRaw(body, readFails) ==
    IF readFails THEN ReadError ELSE ErrorsNew(TrimSpace(body))

\* the error do builds from the body of a response that is no success (lines 478-488)
ErrorOfBody(body, readFails) ==
    IF readFails THEN ReadError
    ELSE LET errResp == UnmarshalError(body)
         IN  IF errResp.ok /\ Len(errResp.Message) > 0
             THEN ErrorsNew(errResp.Message)
             ELSE ErrorsNew(TrimSpace(body))

----------------------------------------------------------------------------
(* Request.do *)

\* io.Copy(dst, body): the symbols that reach dst before the body ends, a Read
\* fails (after readErrAt symbols; -1: never) or dst refuses a Write (room
\* symbols left; -1: never)
Copied(body, readErrAt, room) ==
    LET a == IF readErrAt < 0 THEN Len(body) ELSE Min(readErrAt, Len(body))
    IN  IF room < 0 THEN a ELSE Min(a, room)

\* io.Writer.Write of data on a writer with room left
WriteTo(w, data) ==
    [data |-> w.data \o data,
     room |-> IF w.room < 0 THEN w.room ELSE w.room - Len(data)]

\* ContentLength that counts the body instead of reading the declaration
ContentLength_OfBody(out) == Len(out.body)

\* resp.ContentLength: the length the response declares, -1 when it declares
\* none (line 456)
ContentLength(out) == out.length

\* Detached that sends every copy to a goroutine
Detached_Always(r) == TRUE

\* whether do hands the copy of the body to a goroutine of its own (line 463)
Detached(r) == r.async

\* IsNotFoundProbe without the exemption: a 404 is an error for every method
IsNotFoundProbe_Never(r, status) == FALSE

\* whether the status is the "not found" of an existence probe, which is no
\* error (line 475)
IsNotFoundProbe(r, status) == status = 404 /\ r.method = <<"HEAD">>

\* One execution of Request.do by client c at time t, the range over the
\* query map running in `order`, the network answering `out`, the request's
\* respBody being the writer w.  The result holds the Request as do leaves
\* it, the error returned, the exchange performed (with the error do returned
\* for it), the writer afterwards and whether a detached copy was started.
\* http.NewRequestWithContext (lines 435-438) fails only on a method or a URL
\* that does not parse or on a nil context; the operations build the method
\* themselves and the paths and contexts drawn here are well formed, so that
\* return is not taken.
Do(c, r, t, order, out, w) ==
    LET r1 == [r EXCEPT !.contentType = IF @ = <<>> THEN OctetStream ELSE @,
                        !.date = FormatDate(t)]
        exchange == [
            method |-> r1.method,
            url    |-> URL(c, r1),
            queries |-> r1.queries,
            header |-> [ContentType   |-> r1.contentType,
                        Date          |-> r1.date,
                        ContentMD5    |-> [set |-> r1.contentMd5 # <<>>, val |-> r1.contentMd5],
                        Authorization |-> <<"OSS ", c.AccessKeyId, ":", signature(c, r1, order)>>],
            signed |-> SignedMessage(c, r1, order),
            body   |-> r1.reqBody,
            out    |-> out,
            err    |-> Nil,
            closes |-> 0,
            copyFailed |-> FALSE ]
    IN  IF out.transport
        THEN [req |-> r1, err |-> TransportError, sink |-> w, spawn |-> FALSE,
              exchange |-> [exchange EXCEPT !.err = TransportError]]
        ELSE
        LET r2 == [r1 EXCEPT !.Response = [present |-> TRUE, StatusCode |-> out.status],
                             !.ResponseContentLength = [set |-> TRUE, val |-> ContentLength(out)]]
        IN  IF out.status = 200
            THEN IF ~r2.hasSink
                 THEN [req |-> r2, err |-> Nil, sink |-> w, spawn |-> FALSE,
                       exchange |-> [exchange EXCEPT !.closes = 1]]
                 ELSE IF Detached(r2)
                 THEN [req |-> r2, err |-> Nil, sink |-> w, spawn |-> TRUE,
                       exchange |-> exchange]
                 ELSE LET n == Copied(out.body, out.readErrAt, w.room)
                      IN  [req |-> r2, err |-> Nil, spawn |-> FALSE,
                           sink |-> WriteTo(w, SubSeq(out.body, 1, n)),
                           exchange |-> [exchange EXCEPT !.closes = 1,
                                                         !.copyFailed = n < Len(out.body)]]
            ELSE IF IsNotFoundProbe(r2, out.status)
                 THEN [req |-> r2, err |-> Nil, sink |-> w, spawn |-> FALSE,
                       exchange |-> [exchange EXCEPT !.closes = 1]]
                 ELSE LET err == ErrorOfBody(out.body, out.readErrAt >= 0)
                      IN  [req |-> r2, err |-> err, sink |-> w, spawn |-> FALSE,
                           exchange |-> [exchange EXCEPT !.closes = 1, !.err = err]]

----------------------------------------------------------------------------
(* the environment: clients, inputs, answers of the service *)

Clients ==
    {[AccessKeyId |-> <<"LTAI">>, AccessKeySecret |-> <<"secret">>,
      Prefix |-> p, Bucket |-> <<"abc">>] :
        p \in {<<"https://abc.oss-cn-hongkong.aliyuncs.com">>,
               <<"https://abc.oss-cn-hongkong.aliyuncs.com", "/">>}}

\* paths of remote objects, with and without the leading slash
Remotes == {<<"a">>, <<"/", "a">>}

RECURSIVE SeqsUpTo(_, _)
\* the sequences over S of length at most n
SeqsUpTo(S, n) ==
    IF n = 0 THEN {<<>>}
    ELSE LET shorter == SeqsUpTo(S, n - 1)
         IN  shorter \cup {Append(s, x) : s \in {t \in shorter : Len(t) = n - 1}, x \in S}

\* the contents of objects
Objects == SeqsUpTo({"x", "y"}, MaxBody)

\* bodies of responses that are no success
ErrorBodies ==
    { <<>>,
      <<" ", "Bad Gateway", "\n">>,
      <<"<Error>", "<Code>", "AccessDenied", "</Code>", "<Message>", " ", "denied", " ",
        "</Message>", "</Error>">>,
      <<"\n", "<Error>", "<Code>", "AccessDenied", "</Code>", "<Message>", "</Message>",
        "</Error>", "\n">>,
      <<"<Error>", "<Message>", "cut">>,
      <<"<html>", "oops", "</html>", "\n">> }

\* the statuses the service answers with
Statuses == {200, 400, 404}

NoResponse == [transport |-> TRUE, status |-> 0, length |-> 0, body |-> <<>>, readErrAt |-> -1]

\* a response: its status, declared Content-Length (-1: not declared), body,
\* and the number of symbols a reader gets before a Read fails (-1: none fails)
Response(status, length, body, readErrAt) ==
    [transport |-> FALSE, status |-> status, length |-> length, body |-> body,
     readErrAt |-> readErrAt]

\* where reading a body may fail
ReadCuts(body) == {-1} \cup {n \in {0, Len(body) - 1} : 0 <= n /\ n < Len(body)}

\* the Content-Length declared with a body: a gateway's plain text declares none
DeclaredLength(body) == IF body = <<" ", "Bad Gateway", "\n">> THEN -1 ELSE Len(body)

\* the answers that are no success, with the bodies given
Failures(bodies) ==
    {NoResponse} \cup
    UNION {{Response(s, DeclaredLength(b), b, e) : s \in Statuses \ {200}, e \in ReadCuts(b)} :
              b \in bodies}

\* the answers to a HEAD request: no body, the object's length declared
HeadOutcomes ==
    {NoResponse} \cup {Response(s, l, <<>>, -1) : s \in Statuses, l \in {0, MaxBody}}

\* the body of the answer to an upload whose Content-MD5 is wrong
InvalidDigest ==
    <<"<?xml?>", "\n", "<Error>", "<Code>", "InvalidDigest", "</Code>", "<Message>",
      "The Content-MD5 you specified was invalid.", "</Message>", "</Error>", "\n">>

\* the body of the answer to a request the service refuses
AccessDenied ==
    <<"<Error>", "<Code>", "AccessDenied", "</Code>", "<Message>", " ", "denied", " ",
      "</Message>", "</Error>">>

\* the answers to a POST of a delete: an empty 200, or a failure
DeleteOutcomes ==
    {Response(200, 0, <<>>, -1), NoResponse,
     Response(400, Len(InvalidDigest), InvalidDigest, -1),
     Response(404, Len(AccessDenied), AccessDenied, 0)}

\* the answers to a PUT of an object: an empty 200, or a failure
WriteOutcomes == {Response(200, 0, <<>>, -1)} \cup Failures({InvalidDigest, <<>>})

\* the answers to a GET of an object
GetOutcomes ==
    UNION {{Response(200, Len(b), b, e) : e \in ReadCuts(b)} : b \in Objects}
    \cup Failures(ErrorBodies)

\* writers a caller passes as respBody: room is the number of symbols it
\* accepts before a Write fails, -1 for a writer that never fails (bytes.Buffer)
Writer(room) == [data |-> <<>>, room |-> room]
Buffer == Writer(-1)
SinkRooms == {-1, 0, 1}

NoTask == [state |-> "none", exch |-> 0, pos |-> 0, src |-> NoResponse]

\* the *ImageInfo a call returns: nil, or the four values
NoInfo == [present |-> FALSE, Size |-> 0, Format |-> "", Width |-> 0, Height |-> 0]

NoReturn == [returned |-> FALSE, err |-> Nil, exists |-> FALSE,
             result |-> [Prefix |-> <<>>, Files |-> <<>>, Dirs |-> <<>>],
             deleted |-> <<>>, undeleted |-> <<>>,
             info |-> NoInfo, form |-> <<>>]

\* a caller that has not called yet
Idle == [pc |-> "idle", op |-> [name |-> "none"], req |-> Request, frame |-> <<>>,
         wire |-> <<>>, sink |-> Buffer, task |-> NoTask, ret |-> NoReturn]

\* the oss command once main has made the jobs channel and started the
\* goroutine that walks the directory (src/oss/main.go lines 86-87), before
\* any worker is started
ToolStart ==
    [walker   |-> [pc |-> "walk", next |-> 1, name |-> 0],
     jobs     |-> [closed |-> FALSE],
     worker   |-> [w \in 1..Concurrency |-> [pc |-> "none", path |-> 0]],
     wg       |-> 0,
     main     |-> [pc |-> "start", i |-> 0],
     exited   |-> FALSE,
     sent     |-> <<>>,
     received |-> <<>>,
     uploaded |-> <<>>]

Init ==
    /\ client \in Clients
    /\ now = 0
    /\ pc = "idle"
    /\ op = [name |-> "none"]
    /\ req = Request
    /\ frame = <<>>
    /\ wire = <<>>
    /\ sink = Buffer
    /\ task = NoTask
    /\ ret = NoReturn
    /\ parked = Idle
    /\ tool = ToolStart

\* time passes
Tick ==
    /\ pc = "idle"
    /\ now < MaxTime
    /\ now' = now + 1
    /\ UNCHANGED <<client, parked, tool, pc, op, req, frame, wire, sink, task, ret>>

----------------------------------------------------------------------------
(* operations of one exchange *)

\* Client.ExistsWithContext (Client.Exists calls it)
ExistsWithContext(remote, out) ==
    /\ pc = "idle"
    /\ LET r == [Request EXCEPT !.remote = remote, !.method = <<"HEAD">>]
           d == Do(client, r, now, <<>>, out, sink)
       IN  /\ req' = d.req
           /\ wire' = Append(wire, d.exchange)
           /\ ret' = [NoReturn EXCEPT !.returned = TRUE, !.err = d.err,
                          !.exists = d.req.Response.present
                                     /\ d.req.Response.StatusCode = 200]
    /\ op' = [name |-> "Exists", remote |-> remote]
    /\ pc' = "done"
    /\ UNCHANGED <<client, parked, tool, now, frame, sink, task>>

\* Client.UploadWithContext (Client.Upload calls it)
UploadWithContext(remote, body, md5, contentType, out) ==
    /\ pc = "idle"
    /\ LET r == [Request EXCEPT !.remote = remote,
                                !.reqBody = [present |-> TRUE, data |-> body],
                                !.contentType = contentType,
                                !.contentMd5 = Base64(md5),
                                !.method = <<"PUT">>]
           d == Do(client, r, now, <<>>, out, sink)
       IN  /\ req' = d.req
           /\ wire' = Append(wire, d.exchange)
           /\ ret' = [NoReturn EXCEPT !.returned = TRUE, !.err = d.err]
    /\ op' = [name |-> "Upload", remote |-> remote]
    /\ pc' = "done"
    /\ UNCHANGED <<client, parked, tool, now, frame, sink, task>>

\* Client.download, which Download, DownloadWithContext (async false) and
\* DownloadAsync, DownloadAsyncWithContext (async true) call; respBody is nil
\* (hasSink false) or a writer with `room`
download(remote, hasSink, room, async, out) ==
    /\ pc = "idle"
    /\ LET r == [Request EXCEPT !.remote = remote, !.method = <<"GET">>,
                                !.hasSink = hasSink, !.async = async]
           d == Do(client, r, now, <<>>, out, Writer(room))
       IN  /\ req' = d.req
           /\ wire' = Append(wire, d.exchange)
           /\ sink' = d.sink
           /\ task' = IF d.spawn
                      THEN [state |-> "copying", exch |-> Len(wire) + 1, pos |-> 0, src |-> out]
                      ELSE task
           /\ ret' = [NoReturn EXCEPT !.returned = TRUE, !.err = d.err]
    /\ op' = [name |-> IF async THEN "DownloadAsync" ELSE "Download", remote |-> remote]
    /\ pc' = "done"
    /\ UNCHANGED <<client, parked, tool, now, frame>>

\* DeferredClose of a goroutine that returns without closing the body
DeferredClose_Missing(closes) == closes

\* the deferred resp.Body.Close() of the detached goroutine (line 465), on
\* the number of times the body was closed
DeferredClose(closes) == closes + 1

\* the detached goroutine of do (lines 464-467): io.Copy moves one more symbol
CopyStep ==
    /\ task.state = "copying"
    /\ task.pos < Len(task.src.body)
    /\ task.src.readErrAt < 0 \/ task.pos < task.src.readErrAt
    /\ sink.room # 0
    /\ sink' = WriteTo(sink, <<task.src.body[task.pos + 1]>>)
    /\ task' = [task EXCEPT !.pos = @ + 1]
    /\ UNCHANGED <<client, parked, tool, now, pc, op, req, frame, wire, ret>>

\* the detached goroutine of do: io.Copy returns (its result is dropped) and
\* the deferred resp.Body.Close runs
CopyEnd ==
    /\ task.state = "copying"
    /\ \/ task.pos = Len(task.src.body)
       \/ task.pos = task.src.readErrAt
       \/ sink.room = 0
    /\ task' = [task EXCEPT !.state = "ended"]
    /\ wire' = [wire EXCEPT ![task.exch].closes = DeferredClose(@),
                            ![task.exch].copyFailed = task.pos < Len(task.src.body)]
    /\ UNCHANGED <<client, parked, tool, now, pc, op, req, frame, sink, ret>>

----------------------------------------------------------------------------
(* Client.ImageInfoWithContext *)

\* the body of the answer to x-oss-process=image/info: a JSON object, which
\* the service may end with a line feed
InfoBody(newline) ==
    <<"{", "FileSize", "1024", "Format", "png", "ImageWidth", "2", "ImageHeight", "3", "}">>
    \o (IF newline THEN <<"\n">> ELSE <<>>)

\* the error of json.Decoder.Decode on a document that ends too early
UnexpectedEOF == [kind |-> "io.ErrUnexpectedEOF", text |-> <<"unexpected EOF">>]

\* strconv.ParseInt and strconv.Atoi, the error dropped: 0 for no number
ParseInt(s) ==
    CASE s = "1024" -> 1024
      [] s = "2"    -> 2
      [] s = "3"    -> 3
      [] OTHER      -> 0

\* the value of the member `name` of the JSON object in buf, "" when absent
Member(buf, name) ==
    LET at == {i \in 1..(Len(buf) - 1) : buf[i] = name}
    IN  IF at = {} THEN "" ELSE buf[(CHOOSE i \in at : \A j \in at : i <= j) + 1]

\* json.NewDecoder(&response).Decode(&imgInfo) on what was copied into the
\* buffer (line 162): one value is decoded, what follows it is not read
DecodeInfo(buf) ==
    IF Len(buf) = 0 THEN [err |-> EOF, info |-> NoInfo]
    ELSE IF \A i \in 1..Len(buf) : buf[i] # "}"
    THEN [err |-> UnexpectedEOF, info |-> NoInfo]
    ELSE [err |-> Nil,
          info |-> [present |-> TRUE,
                    Size   |-> ParseInt(Member(buf, "FileSize")),
                    Format |-> Member(buf, "Format"),
                    Width  |-> ParseInt(Member(buf, "ImageWidth")),
                    Height |-> ParseInt(Member(buf, "ImageHeight"))]]

\* the answers to the GET of the info of an image
InfoOutcomes ==
    UNION {{Response(200, Len(b), b, e) : e \in ReadCuts(b)} :
              b \in {InfoBody(FALSE), InfoBody(TRUE)}}
    \cup Failures({AccessDenied})

\* Client.ImageInfoWithContext (Client.ImageInfo calls it), lines 148-177
ImageInfoWithContext(remote, out) ==
    /\ pc = "idle"
    /\ LET r == [Request EXCEPT !.remote = remote, !.method = <<"GET">>,
                                !.hasSink = TRUE,
                                !.queries = [k \in {"x-oss-process"} |->
                                                <<"image", "/", "info">>]]
       IN  \E order \in KeyOrders(r.queries) :
           LET d   == Do(client, r, now, order, out, Buffer)
               dec == DecodeInfo(d.sink.data)
           IN  /\ req' = d.req
               /\ wire' = Append(wire, d.exchange)
               /\ ret' = IF d.err = Nil /\ d.req.Response.present
                          THEN [NoReturn EXCEPT !.returned = TRUE, !.err = dec.err,
                                                !.info = dec.info]
                          ELSE [NoReturn EXCEPT !.returned = TRUE, !.err = d.err]
    /\ op' = [name |-> "ImageInfo", remote |-> remote]
    /\ pc' = "done"
    /\ UNCHANGED <<client, parked, tool, now, frame, sink, task>>

----------------------------------------------------------------------------
(* Client.PostForm *)

\* Time is counted in half seconds where PostForm rounds it: a duration is a
\* number of half seconds, and the clock is read `half` half seconds after
\* the second `now`.
HalvesPerSecond == 2

\* the duration PostForm falls back to: 10 * time.Minute (line 201)
DefaultDuration == 10 * 60 * HalvesPerSecond

\* time.Time.Round(time.Second) of the instant t (in half seconds): halfway
\* values round up
RoundSecond(t) == ((t + 1) \div HalvesPerSecond) * HalvesPerSecond

\* the expiration of the policy (lines 200-202, 210)
Expiration(t, duration) ==
    RoundSecond(t) + (IF duration <= 0 THEN DefaultDuration ELSE duration)

\* one condition of a policy: a map of one pair, a list, or a value
\* encoding/json has no encoding for (a channel, a function)
Condition(kind, name, val, hi) == [kind |-> kind, name |-> name, val |-> val, hi |-> hi]

\* the conditions PostForm puts in the policy (lines 193-205)
Conditions(c, key, maxSize, extraConditions) ==
    <<Condition("map", "bucket", c.Bucket, 0), Condition("map", "key", key, 0)>>
    \o (IF maxSize > 0 THEN <<Condition("list", "content-length-range", <<>>, maxSize)>>
        ELSE <<>>)
    \o extraConditions

\* json.Marshal of the policy (lines 206-212): the bytes, none when it fails
Marshal(expiration, conditions) ==
    IF \E i \in 1..Len(conditions) : conditions[i].kind = "chan"
    THEN [ok |-> FALSE, bytes |-> <<>>]
    ELSE [ok |-> TRUE, bytes |-> <<[expiration |-> expiration, conditions |-> conditions]>>]

\* FormKey that keeps the key as it was given
FormKey_Kept(key) == key

\* the key of the form: the key given without its leading slash (line 192)
FormKey(key) == TrimPrefix(key)

\* the map PostForm returns (lines 213-221); the error of Marshal is dropped
\* (line 206) and PostForm has no error to return
FormFields(c, key, maxSize, duration, extraConditions, t) ==
    LET k          == FormKey(key)
        policyJson == Marshal(Expiration(t, duration),
                              Conditions(c, k, maxSize, extraConditions)).bytes
        policy     == Base64(policyJson)
    IN  [f \in {"key", "policy", "OSSAccessKeyId", "signature"} |->
            CASE f = "key"            -> k
              [] f = "policy"         -> policy
              [] f = "OSSAccessKeyId" -> c.AccessKeyId
              [] f = "signature"      -> HMAC(c.AccessKeySecret, policy)]

\* keys of a form
FormKeys == {<<"a", "/", "b">>, <<"/", "a", "/", "b">>, <<"/", "/", "a">>}

\* the size limits a caller gives: none, or 1 MB
MaxSizes == {-1, 0, 1048576}

\* the durations a caller gives, in half seconds
Durations == {-2, 0, 1, 2, 3, 120}

\* the extra conditions a caller gives
ExtraConditions ==
    { <<>>,
      <<Condition("map", "x-oss-object-acl", <<"public-read">>, 0)>>,
      <<Condition("list", "starts-with", <<"$content-type", "application/">>, 0),
        Condition("map", "x-oss-object-acl", <<"public-read">>, 0)>>,
      <<Condition("chan", "", <<>>, 0)>>,
      <<Condition("map", "x-oss-object-acl", <<"public-read">>, 0),
        Condition("chan", "", <<>>, 0)>> }

\* Client.PostForm
PostForm ==
    /\ pc = "idle"
    /\ \E key \in FormKeys, maxSize \in MaxSizes, duration \in Durations,
          extraConditions \in ExtraConditions, half \in 0..(HalvesPerSecond - 1) :
          /\ op' = [name |-> "PostForm", key |-> key, maxSize |-> maxSize,
                    duration |-> duration, extraConditions |-> extraConditions,
                    half |-> half]
          /\ ret' = [NoReturn EXCEPT !.returned = TRUE,
                         !.form = FormFields(client, key, maxSize, duration,
                                             extraConditions,
                                             now * HalvesPerSecond + half)]
    /\ pc' = "done"
    /\ UNCHANGED <<client, parked, tool, now, req, frame, wire, sink, task>>

ImageInfo == \E remote \in Remotes, out \in InfoOutcomes : ImageInfoWithContext(remote, out)

Exists == \E remote \in Remotes, out \in HeadOutcomes : ExistsWithContext(remote, out)

Upload ==
    \E remote \in Remotes, body \in {b \in Objects : Len(b) \in {0, MaxBody}},
       contentType \in {<<>>, <<"image", "/", "png">>},
       out \in WriteOutcomes :
        \E md5 \in {<<>>, MD5(body), MD5(<<"z">>)} :
            UploadWithContext(remote, body, md5, contentType, out)

Download ==
    \E remote \in Remotes, hasSink \in BOOLEAN, room \in SinkRooms, out \in GetOutcomes :
        download(remote, hasSink, IF hasSink THEN room ELSE -1, FALSE, out)

DownloadAsync ==
    \E remote \in Remotes, hasSink \in BOOLEAN, room \in SinkRooms, out \in GetOutcomes :
        download(remote, hasSink, IF hasSink THEN room ELSE -1, TRUE, out)

Next ==
    \/ Tick
    \/ Exists
    \/ Upload
    \/ Download
    \/ DownloadAsync
    \/ ImageInfo
    \/ PostForm
    \/ CopyStep
    \/ CopyEnd

Spec == Init /\ [][Next]_vars

\* the scheduler runs the detached goroutine: a copy that can move on does,
\* and a copy that is over returns
SpecFair == Spec /\ WF_vars(CopyStep) /\ WF_vars(CopyEnd)

----------------------------------------------------------------------------
(* batch delete: Client.DeleteWithContext *)

\* the most keys one delete request carries (remotes[:1000])
ChunkSize == 1000

\* the i-th key a caller passes: some keys carry a leading slash
Key(i) == IF i % 4 = 2 THEN <<"/", "k", ToString(i)>> ELSE <<"k", ToString(i)>>
Keys(n) == [i \in 1..n |-> Key(i)]

\* the lengths of the key lists: around every multiple of the chunk size
DeleteSizes ==
    {n \in UNION {{k * ChunkSize - 1, k * ChunkSize, k * ChunkSize + 1} : k \in 0..MaxChunks} :
        n >= 0}

\* the leading chunk of remotes (lines 288-292)
CurrentOf(remotes) ==
    IF Len(remotes) > ChunkSize THEN SubSeq(remotes, 1, ChunkSize) ELSE remotes

\* RestOf cut one key early: the last key of the chunk is sent again
RestOf_OneEarly(remotes) ==
    IF Len(remotes) > ChunkSize THEN SubSeq(remotes, ChunkSize, Len(remotes)) ELSE <<>>

\* what is left of remotes after the leading chunk (lines 288-292)
RestOf(remotes) ==
    IF Len(remotes) > ChunkSize THEN SubSeq(remotes, ChunkSize + 1, Len(remotes)) ELSE <<>>

\* DeleteBody that names the keys as they were given
DeleteBody_KeepsSlash(current) ==
    <<"<?xml version=\"1.0\" encoding=\"UTF-8\"?>", "\n",
      [Delete |-> [Quiet |-> TRUE,
                   Object |-> [i \in 1..Len(current) |-> [Key |-> current[i]]]]]>>

\* xml.Header followed by the encoding of deleteReq{Quiet: true, Files: files},
\* files holding each key of current without its leading slash (lines 284-303)
DeleteBody(current) ==
    <<"<?xml version=\"1.0\" encoding=\"UTF-8\"?>", "\n",
      [Delete |-> [Quiet |-> TRUE,
                   Object |-> [i \in 1..Len(current) |-> [Key |-> TrimPrefix(current[i])]]]]>>

\* the Request of one delete invocation (lines 304-313)
DeleteRequest(current) ==
    [Request EXCEPT !.remote = <<"/", "?", "delete">>,
                    !.reqBody = [present |-> TRUE, data |-> DeleteBody(current)],
                    !.contentMd5 = Base64(MD5(DeleteBody(current))),
                    !.method = <<"POST">>]

\* arguments and locals of the recursive invocations, empty
Frame == [remotes |-> <<>>, prefix |-> <<>>, marker |-> <<>>, recursive |-> FALSE,
          result |-> NoReturn.result, exceptions |-> <<>>,
          deleted |-> <<>>, undeleted |-> <<>>]

\* RecursiveReturn that reports the candidates as deleted whatever the error
RecursiveReturn_KeepsDeleted(fr, err) ==
    [NoReturn EXCEPT !.returned = TRUE, !.err = err,
                     !.deleted = fr.deleted, !.undeleted = fr.undeleted]

\* what DeleteRecursiveWithContext returns once its delete call returned err
\* (lines 344-349)
RecursiveReturn(fr, err) ==
    [NoReturn EXCEPT !.returned = TRUE, !.err = err,
                     !.deleted = IF err # Nil THEN <<>> ELSE fr.deleted,
                     !.undeleted = IF err # Nil THEN fr.undeleted \o fr.deleted
                                   ELSE fr.undeleted]

\* the outermost DeleteWithContext returns err to operation `name`
DeleteReturns(name, fr, err) ==
    /\ pc' = "done"
    /\ frame' = fr
    /\ ret' = IF name = "DeleteRecursive" THEN RecursiveReturn(fr, err)
              ELSE [NoReturn EXCEPT !.returned = TRUE, !.err = err]

\* NoKeys without the test: an empty list is sent like any other
NoKeys_Never(remotes) == FALSE

\* whether DeleteWithContext has nothing to delete and returns at once
\* (lines 280-283)
NoKeys(remotes) == Len(remotes) = 0

\* Recurses without the test of the error: the rest is deleted after a failure
Recurses_AfterFailure(err, rest) == Len(rest) > 0

\* whether DeleteWithContext calls itself on the rest (line 318)
Recurses(err, rest) == err = Nil /\ Len(rest) > 0

\* one invocation of DeleteWithContext on fr.remotes within operation `name`,
\* the service answering `out`: up to the recursive call or the return
DeleteInvocation(name, fr, out) ==
    IF NoKeys(fr.remotes)
    THEN /\ DeleteReturns(name, fr, Nil)
         /\ UNCHANGED <<req, wire>>
    ELSE LET current == CurrentOf(fr.remotes)
             rest    == RestOf(fr.remotes)
             d       == Do(client, DeleteRequest(current), now, <<>>, out, sink)
         IN  /\ req' = d.req
             /\ wire' = Append(wire, d.exchange)
             /\ IF Recurses(d.err, rest)
                THEN /\ pc' = "delete"
                     /\ frame' = [fr EXCEPT !.remotes = rest]
                     /\ ret' = ret
                ELSE DeleteReturns(name, fr, d.err)

\* Client.Delete, Client.DeleteWithContext called with n keys
Delete ==
    /\ pc = "idle"
    /\ \E n \in DeleteSizes, out \in DeleteOutcomes :
          /\ op' = [name |-> "Delete", remotes |-> Keys(n)]
          /\ DeleteInvocation("Delete", [Frame EXCEPT !.remotes = Keys(n)], out)
    /\ UNCHANGED <<client, parked, tool, now, sink, task>>

\* the recursive call of DeleteWithContext on the rest (line 319)
DeleteRest ==
    /\ pc = "delete"
    /\ \E out \in DeleteOutcomes : DeleteInvocation(op.name, frame, out)
    /\ UNCHANGED <<client, parked, tool, now, op, sink, task>>

----------------------------------------------------------------------------
(* listing: Client.ListWithContext, Request.list *)

\* the value of the max-keys parameter, the most entries a page holds
MaxKeys == 1000

\* NormalizePrefix that takes one slash off each end
NormalizePrefix_TrimOne(prefix) ==
    LET p == TrimSuffix(TrimPrefix(prefix)) \o <<"/">>
    IN  IF p = <<"/">> THEN <<>> ELSE p

\* the prefix as list sends it (lines 405-408)
NormalizePrefix(prefix) ==
    LET p == TrimSlashes(prefix) \o <<"/">>
    IN  IF p = <<"/">> THEN <<>> ELSE p

\* ListQueries that asks every page from the start
ListQueries_NoMarker(prefix, marker, recursive) ==
    [k \in {"max-keys", "prefix", "marker"} \cup (IF recursive THEN {} ELSE {"delimiter"}) |->
        CASE k = "max-keys"  -> <<"1000">>
          [] k = "prefix"    -> prefix
          [] k = "marker"    -> <<>>
          [] k = "delimiter" -> <<"/">>]

\* the query parameters of a page request (lines 409-415)
ListQueries(prefix, marker, recursive) ==
    [k \in {"max-keys", "prefix", "marker"} \cup (IF recursive THEN {} ELSE {"delimiter"}) |->
        CASE k = "max-keys"  -> <<"1000">>
          [] k = "prefix"    -> prefix
          [] k = "marker"    -> marker
          [] k = "delimiter" -> <<"/">>]

\* The body of a listing answer is the sequence of the parts of a
\* ListBucketResult document: a head (Prefix, IsTruncated, NextMarker), one
\* part for each Contents and each CommonPrefixes element, and the end tag.
HeadPart(prefix, truncated, next) ==
    [el |-> "ListBucketResult",
     val |-> [Prefix |-> prefix, IsTruncated |-> truncated, NextMarker |-> next]]
ContentsPart(key) ==
    [el |-> "Contents",
     val |-> [Key |-> key, LastModified |-> <<"2020-12-29T13:05:20.000Z">>,
              ETag |-> <<"\"13BB571C\"">>, Size |-> 1024]]
CommonPrefixesPart(prefix) == [el |-> "CommonPrefixes", val |-> [Prefix |-> prefix]]
EndPart == [el |-> "/ListBucketResult", val |-> <<>>]

\* the File and the Directory xml.Decode fills from an element
FileOf(part) ==
    [Name |-> part.val.Key, LastModified |-> part.val.LastModified,
     ETag |-> part.val.ETag, Size |-> part.val.Size]
DirectoryOf(part) == [Name |-> part.val.Prefix]

\* xml.NewDecoder(&response).Decode(&list) on what was copied into the buffer
DecodeList(buf) ==
    LET none == [Prefix |-> <<>>, IsTruncated |-> FALSE, NextMarker |-> <<>>,
                 Files |-> <<>>, Directories |-> <<>>]
    IN  IF Len(buf) = 0 THEN [err |-> EOF, list |-> none]
        ELSE IF buf[Len(buf)].el # "/ListBucketResult"
        THEN [err |-> XMLSyntaxError, list |-> none]
        ELSE LET contents == SelectSeq(buf, LAMBDA part : part.el = "Contents")
                 prefixes == SelectSeq(buf, LAMBDA part : part.el = "CommonPrefixes")
             IN  [err |-> Nil,
                  list |-> [Prefix      |-> buf[1].val.Prefix,
                            IsTruncated |-> buf[1].val.IsTruncated,
                            NextMarker  |-> buf[1].val.NextMarker,
                            Files       |-> [i \in 1..Len(contents) |-> FileOf(contents[i])],
                            Directories |-> [i \in 1..Len(prefixes) |->
                                                DirectoryOf(prefixes[i])]]]

\* the i-th key of the bucket
FileKey(i) == <<"tmp", "/", IF i % 5 = 0 THEN "keep" ELSE "f", ToString(i)>>

\* the numbers of files a page holds
PageSizes == {0, 1, MaxKeys}

\* the body of page number p (from 1) with n files
PageBody(prefix, p, n, withDir, truncated, next) ==
    <<HeadPart(prefix, truncated, next)>>
    \o [i \in 1..n |-> ContentsPart(FileKey((p - 1) * MaxKeys + i))]
    \o (IF withDir THEN <<CommonPrefixesPart(<<"tmp", "/", "d", ToString(p), "/">>)>>
        ELSE <<>>)
    \o <<EndPart>>

\* The answers of the service to the request for page p of a listing under
\* prefix with the marker given: a page of n files, with one common prefix
\* when the listing has a delimiter; the page is the last one, or it is
\* truncated and names a new marker; a faulty service may also flag a page
\* truncated and name the marker it was given.  Reading a page may fail at
\* its start or after its head.  The last page the model serves is never
\* flagged truncated.
PageOutcomes(prefix, marker, recursive, p) ==
    {Response(200, n + 2, PageBody(prefix, p, n, ~recursive, FALSE, <<>>), -1) :
        n \in PageSizes}
    \cup {Response(200, n + 2,
                   PageBody(prefix, p, n, ~recursive, TRUE, <<"tmp", "/", "m", ToString(p)>>),
                   -1) : n \in {k \in PageSizes : p < MaxPages}}
    \cup {Response(200, 3, PageBody(prefix, p, 1, ~recursive, TRUE, marker), -1) :
        n \in {k \in {1} : p < MaxPages}}
    \cup {Response(200, 3, PageBody(prefix, p, 1, ~recursive, FALSE, <<>>), cut) :
        cut \in {0, 1}}
    \cup {NoResponse, Response(400, Len(AccessDenied), AccessDenied, -1),
          Response(404, Len(AccessDenied), AccessDenied, 0)}

\* Excepted that asks the first exception function only
Excepted_FirstOnly(exceptions, name) ==
    Len(exceptions) > 0 /\ HasPrefix(name, exceptions[1])

\* whether one of the exception functions returns true for name (lines 336-341);
\* an exception is the test for a prefix, as the oss tool passes
Excepted(exceptions, name) ==
    \E i \in 1..Len(exceptions) : HasPrefix(name, exceptions[i])

\* the names of files in listing order
NamesOf(files) == [i \in 1..Len(files) |-> files[i].Name]

\* the loop of DeleteRecursiveWithContext over list.Files (lines 334-343)
DeletedOf(files, exceptions) ==
    SelectSeq(NamesOf(files), LAMBDA name : ~Excepted(exceptions, name))
UndeletedOf(files, exceptions) ==
    SelectSeq(NamesOf(files), LAMBDA name : Excepted(exceptions, name))

\* the outermost Request.list returns err to operation `name`: List returns,
\* DeleteRecursiveWithContext goes on (lines 331-344) to its delete call
ListReturns(name, fr, err) ==
    IF name = "List"
    THEN /\ pc' = "done"
         /\ frame' = fr
         /\ ret' = [NoReturn EXCEPT !.returned = TRUE, !.err = err, !.result = fr.result]
    ELSE IF err # Nil
    THEN /\ pc' = "done"
         /\ frame' = fr
         /\ ret' = [NoReturn EXCEPT !.returned = TRUE, !.err = err]
    ELSE LET deleted == DeletedOf(fr.result.Files, fr.exceptions)
             fr2 == [fr EXCEPT !.deleted = deleted,
                               !.undeleted = UndeletedOf(fr.result.Files, fr.exceptions),
                               !.remotes = deleted]
         IN  IF NoKeys(deleted)
             THEN DeleteReturns(name, fr2, Nil)
             ELSE /\ pc' = "delete"
                  /\ frame' = fr2
                  /\ ret' = ret

\* Accumulate that keeps the entries of the last page only
Accumulate_Overwrites(result, list) ==
    [Prefix |-> list.Prefix, Files |-> list.Files, Dirs |-> list.Directories]

\* the result after the entries of a decoded page were appended (lines 424-426)
Accumulate(result, list) ==
    [Prefix |-> list.Prefix,
     Files  |-> result.Files \o list.Files,
     Dirs   |-> result.Dirs \o list.Directories]

\* one invocation of Request.list within operation `name` on the Request r,
\* the service answering `out`: up to the recursive call or the return
ListInvocation(name, fr, r, out) ==
    LET prefix == NormalizePrefix(fr.prefix)
        r1 == [r EXCEPT !.remote = <<"/">>, !.canonRes = <<"/">>,
                        !.queries = ListQueries(prefix, fr.marker, fr.recursive),
                        !.method = <<"GET">>, !.hasSink = TRUE]
        d   == Do(client, r1, now, <<>>, out, Buffer)
        dec == DecodeList(d.sink.data)
    IN  /\ req' = d.req
        /\ wire' = Append(wire, d.exchange)
        /\ IF dec.err # Nil
           THEN ListReturns(name, fr, dec.err)
           ELSE LET fr2 == [fr EXCEPT !.result = Accumulate(@, dec.list)]
                IN  IF dec.list.IsTruncated
                    THEN /\ pc' = "list"
                         /\ frame' = [fr2 EXCEPT !.prefix = prefix,
                                                 !.marker = dec.list.NextMarker]
                         /\ ret' = ret
                    ELSE ListReturns(name, fr2, d.err)

\* prefixes a caller lists
Prefixes == {<<"tmp">>, <<"/", "tmp", "/">>}

\* Client.List, Client.ListWithContext
List ==
    /\ pc = "idle"
    /\ \E prefix \in Prefixes, recursive \in BOOLEAN :
         \E out \in PageOutcomes(NormalizePrefix(prefix), <<>>, recursive, 1) :
          /\ op' = [name |-> "List", prefix |-> prefix, recursive |-> recursive]
          /\ ListInvocation("List",
                            [Frame EXCEPT !.prefix = prefix, !.recursive = recursive],
                            Request, out)
    /\ UNCHANGED <<client, parked, tool, now, sink, task>>

\* the recursive call of Request.list for the next page (line 428)
ListRest ==
    /\ pc = "list"
    /\ \E out \in PageOutcomes(frame.prefix, frame.marker, frame.recursive, Len(wire) + 1) :
          ListInvocation(op.name, frame, req, out)
    /\ UNCHANGED <<client, parked, tool, now, op, sink, task>>

\* the exception lists a caller passes
ExceptionLists ==
    { <<>>, <<<<"tmp", "/", "keep">>>>, <<<<"zzz">>, <<"tmp", "/", "keep">>>> }

\* Client.DeleteRecursiveWithContext
DeleteRecursive ==
    /\ pc = "idle"
    /\ \E prefix \in Prefixes, exceptions \in ExceptionLists :
         \E out \in PageOutcomes(NormalizePrefix(prefix), <<>>, TRUE, 1) :
          /\ op' = [name |-> "DeleteRecursive", prefix |-> prefix, exceptions |-> exceptions]
          /\ ListInvocation("DeleteRecursive",
                            [Frame EXCEPT !.prefix = prefix, !.recursive = TRUE,
                                          !.exceptions = exceptions],
                            Request, out)
    /\ UNCHANGED <<client, parked, tool, now, sink, task>>

\* time passes between two page requests of a listing
Elapse ==
    /\ pc = "list"
    /\ now < MaxTime
    /\ now' = now + 1
    /\ UNCHANGED <<client, parked, tool, pc, op, req, frame, wire, sink, task, ret>>

NextBatch ==
    \/ Delete
    \/ DeleteRest
    \/ List
    \/ ListRest
    \/ DeleteRecursive
    \/ Elapse

\* the batch operations are checked for one of the clients
InitBatch == Init /\ client.Prefix = <<"https://abc.oss-cn-hongkong.aliyuncs.com">>

SpecBatch == InitBatch /\ [][NextBatch]_vars

----------------------------------------------------------------------------
(* Listings of any prefix *)

\* the longest prefix a caller gives
MaxPrefix == 4

\* the prefixes a caller gives: every string of slashes and of one name
AnyPrefixes == UNION {[1..n -> {"/", "a"}] : n \in 0..MaxPrefix}

\* Client.List, Client.ListWithContext with any prefix, answered with a page
ListAny ==
    /\ pc = "idle"
    /\ \E prefix \in AnyPrefixes :
         \E out \in {o \in PageOutcomes(NormalizePrefix(prefix), <<>>, TRUE, 1) :
                        ~o.transport /\ o.status = 200 /\ o.readErrAt = -1} :
          /\ op' = [name |-> "List", prefix |-> prefix, recursive |-> TRUE]
          /\ ListInvocation("List",
                            [Frame EXCEPT !.prefix = prefix, !.recursive = TRUE],
                            Request, out)
    /\ UNCHANGED <<client, parked, tool, now, sink, task>>

NextPrefix ==
    \/ ListAny
    \/ ListRest

SpecPrefix == InitBatch /\ [][NextPrefix]_vars

----------------------------------------------------------------------------
(* Two callers of one Client: each makes one call, and the scheduler
   switches between them at any point between two steps. *)

\* OwnRequest for operations that work on one Request kept with the Client
OwnRequest_Shared(own, last) == last

\* the Request a call goes on with when it runs again: the one it created
\* (lines 360-363, 377-384, 306-314), not the one executed last
OwnRequest(own, last) == own

\* the caller that runs
Running == [pc |-> pc, op |-> op, req |-> req, frame |-> frame,
            wire |-> wire, sink |-> sink, task |-> task, ret |-> ret]

\* the scheduler suspends the caller that runs and resumes the other one
Switch ==
    /\ parked' = Running
    /\ pc' = parked.pc
    /\ op' = parked.op
    /\ req' = OwnRequest(parked.req, req)
    /\ frame' = parked.frame
    /\ wire' = parked.wire
    /\ sink' = parked.sink
    /\ task' = parked.task
    /\ ret' = parked.ret
    /\ UNCHANGED <<client, tool, now>>

\* the answers to the page requests of the two callers: no response, or a
\* page of one file read to its end
PairPages(prefix, marker, recursive, p) ==
    {o \in PageOutcomes(prefix, marker, recursive, p) :
        o.transport \/ (o.status = 200 /\ o.readErrAt = -1 /\ o.length = 3)}

\* the answers to the other requests of the two callers
PairOutcomes == {Response(200, 0, <<>>, -1), NoResponse}

\* Client.List called by the caller that runs
PairList ==
    /\ pc = "idle"
    /\ \E recursive \in BOOLEAN :
         \E out \in PairPages(<<"tmp", "/">>, <<>>, recursive, 1) :
          /\ op' = [name |-> "List", prefix |-> <<"tmp">>, recursive |-> recursive]
          /\ ListInvocation("List",
                            [Frame EXCEPT !.prefix = <<"tmp">>, !.recursive = recursive],
                            Request, out)
    /\ UNCHANGED <<client, parked, tool, now, sink, task>>

\* the recursive call of Request.list of the caller that runs
PairListRest ==
    /\ pc = "list"
    /\ \E out \in PairPages(frame.prefix, frame.marker, frame.recursive, Len(wire) + 1) :
          ListInvocation(op.name, frame, req, out)
    /\ UNCHANGED <<client, parked, tool, now, op, sink, task>>

\* Client.Delete called by the caller that runs, with keys for MaxChunks requests
PairDelete ==
    /\ pc = "idle"
    /\ \E n \in {(MaxChunks - 1) * ChunkSize + 1}, out \in PairOutcomes :
          /\ op' = [name |-> "Delete", remotes |-> Keys(n)]
          /\ DeleteInvocation("Delete", [Frame EXCEPT !.remotes = Keys(n)], out)
    /\ UNCHANGED <<client, parked, tool, now, sink, task>>

\* the recursive call of DeleteWithContext of the caller that runs
PairDeleteRest ==
    /\ pc = "delete"
    /\ \E out \in PairOutcomes : DeleteInvocation(op.name, frame, out)
    /\ UNCHANGED <<client, parked, tool, now, op, sink, task>>

\* Client.Download called by the caller that runs
PairDownload ==
    \E out \in {Response(200, 1, <<"x">>, -1), NoResponse} :
        download(<<"a">>, TRUE, -1, FALSE, out)

NextPair ==
    \/ Switch
    \/ PairList
    \/ PairListRest
    \/ PairDelete
    \/ PairDeleteRest
    \/ PairDownload

SpecPair == InitBatch /\ [][NextPair]_vars

----------------------------------------------------------------------------
(* A session of calls against a store: the service keeps the objects whose
   upload it accepted until it accepts their deletion, and answers every
   request from what it holds.  What it holds is read off the exchanges. *)

\* the paths of the session, two spellings of one key and a key one level down
StoreRemotes == {<<"tmp", "/", "a">>, <<"/", "tmp", "/", "a">>, <<"tmp", "/", "d", "/", "c">>}

\* the keys of the bucket in the order a listing gives them
StoreKeys == << <<"tmp", "/", "a">>, <<"tmp", "/", "d", "/", "c">> >>

\* the contents uploaded
StoreBodies == {[i \in 1..MaxBody |-> "x"], <<"y">>}

\* the key of the object a URL names: its path, without the leading slash
\* and the query
ObjectKey(url) ==
    LET path == Tail(url)
        qs   == {i \in 1..Len(path) : path[i] = "?"}
        n    == IF qs = {} THEN Len(path) ELSE (CHOOSE i \in qs : \A j \in qs : i <= j) - 1
    IN  TrimPrefix(SubSeq(path, 1, n))

\* the keys a delete request names in its body
KeysNamed(e) ==
    LET objects == e.body.data[3].Delete.Object
    IN  {objects[i].Key : i \in 1..Len(objects)}

\* the service accepted the request of the exchange
Accepted(e) == ~e.out.transport /\ e.out.status = 200

RECURSIVE StoreOf(_)
\* the objects the store holds after the exchanges of log
StoreOf(log) ==
    IF log = <<>> THEN {}
    ELSE LET before == StoreOf(SubSeq(log, 1, Len(log) - 1))
             e      == log[Len(log)]
         IN  IF ~Accepted(e) THEN before
             ELSE IF e.method = <<"PUT">>
             THEN {o \in before : o.key # ObjectKey(e.url)}
                  \cup {[key |-> ObjectKey(e.url), data |-> e.body.data]}
             ELSE IF e.method = <<"POST">>
             THEN {o \in before : o.key \notin KeysNamed(e)}
             ELSE before

\* the Content-MD5 of the request, if it has one, is the digest of its body
DigestMatches(e) ==
    ~e.header.ContentMD5.set \/ e.header.ContentMD5.val = Base64(MD5(e.body.data))

\* the body of the answer to a GET of a key the store does not hold
NoSuchKey ==
    <<"<Error>", "<Code>", "NoSuchKey", "</Code>", "<Message>",
      "The specified key does not exist.", "</Message>", "</Error>">>

\* the directory a key falls in when listed under prefix with a delimiter:
\* the prefix and what follows it up to the next slash; <<>> when the key is
\* directly under the prefix
RolledUp(key, prefix) ==
    LET slashes == {i \in (Len(prefix) + 1)..Len(key) : key[i] = "/"}
    IN  IF slashes = {} THEN <<>>
        ELSE SubSeq(key, 1, CHOOSE i \in slashes : \A j \in slashes : i <= j)

\* the page the store answers a listing with: all it holds under the prefix
\* fits on one page
StoreListing(store, queries) ==
    LET prefix    == queries["prefix"]
        delimited == "delimiter" \in DOMAIN queries
        under     == SelectSeq(StoreKeys, LAMBDA k :
                        (\E o \in store : o.key = k) /\ HasPrefix(k, prefix))
        files     == SelectSeq(under, LAMBDA k : ~delimited \/ RolledUp(k, prefix) = <<>>)
        dirs      == SelectSeq(under, LAMBDA k : delimited /\ RolledUp(k, prefix) # <<>>)
    IN  <<HeadPart(prefix, FALSE, <<>>)>>
        \o [i \in 1..Len(files) |-> ContentsPart(files[i])]
        \o [i \in 1..Len(dirs) |-> CommonPrefixesPart(RolledUp(dirs[i], prefix))]
        \o <<EndPart>>

\* the answer of the store to the request of exchange e
StoreAnswer(store, e) ==
    CASE e.method = <<"PUT">> ->
            IF DigestMatches(e) THEN Response(200, 0, <<>>, -1)
            ELSE Response(400, Len(InvalidDigest), InvalidDigest, -1)
      [] e.method = <<"POST">> -> Response(200, 0, <<>>, -1)
      [] e.method = <<"GET">> /\ DOMAIN e.queries # {} ->
            LET page == StoreListing(store, e.queries)
            IN  Response(200, Len(page), page, -1)
      [] OTHER ->
            IF \E o \in store : o.key = ObjectKey(e.url)
            THEN LET o == CHOOSE o \in store : o.key = ObjectKey(e.url)
                 IN  Response(200, Len(o.data), o.data, -1)
            ELSE Response(404, Len(NoSuchKey), NoSuchKey, -1)

\* the last exchange of log was answered by the store from what it held; a
\* delete may also fail to reach it
Served(log) ==
    LET e == log[Len(log)]
    IN  \/ e.out = StoreAnswer(StoreOf(SubSeq(log, 1, Len(log) - 1)), e)
        \/ e.out = NoResponse /\ e.method = <<"POST">>

\* the prefixes listed in a session
StorePrefixes == {<<"tmp">>, <<"/", "tmp", "/">>}

\* the answers a store holding `store` may give to a request for an object
StoreOutcomes(store) ==
    {NoResponse, Response(200, 0, <<>>, -1),
     Response(400, Len(InvalidDigest), InvalidDigest, -1),
     Response(404, Len(NoSuchKey), NoSuchKey, -1)}
    \cup {Response(200, Len(o.data), o.data, -1) : o \in store}

\* the pages a store holding `store` may answer a listing with
StorePages(store) ==
    {LET page == StoreListing(store, ListQueries(NormalizePrefix(p), <<>>, r))
     IN  Response(200, Len(page), page, -1) : p \in StorePrefixes, r \in BOOLEAN}

\* the session has made a request with this method, for a listing or not
Called(method, listing) ==
    \E k \in 1..Len(wire) :
        wire[k].method = method /\ (listing <=> DOMAIN wire[k].queries # {})

\* one Upload of the session
StoreUpload ==
    /\ ~Called(<<"PUT">>, FALSE)
    /\ \E remote \in StoreRemotes, body \in StoreBodies, out \in StoreOutcomes(StoreOf(wire)) :
        \E md5 \in {MD5(body)} \cup {MD5(<<"z">>) : b \in {body} \cap {<<"y">>}} :
          /\ UploadWithContext(remote, body, md5, <<>>, out)
          /\ Served(wire')

\* one Download of the session, into a bytes.Buffer
StoreDownload ==
    /\ ~Called(<<"GET">>, FALSE)
    /\ \E remote \in StoreRemotes, out \in StoreOutcomes(StoreOf(wire)) :
          /\ download(remote, TRUE, -1, FALSE, out)
          /\ Served(wire')

\* one Delete of the session, of one key
StoreDelete ==
    /\ pc = "idle"
    /\ ~Called(<<"POST">>, FALSE)
    /\ \E remote \in StoreRemotes, out \in StoreOutcomes(StoreOf(wire)) :
          /\ op' = [name |-> "Delete", remotes |-> <<remote>>]
          /\ DeleteInvocation("Delete", [Frame EXCEPT !.remotes = <<remote>>], out)
          /\ Served(wire')
    /\ UNCHANGED <<client, parked, tool, now, sink, task>>

\* one List of the session
StoreList ==
    /\ pc = "idle"
    /\ ~Called(<<"GET">>, TRUE)
    /\ \E prefix \in StorePrefixes, recursive \in BOOLEAN,
          out \in StorePages(StoreOf(wire)) :
          /\ op' = [name |-> "List", prefix |-> prefix, recursive |-> recursive]
          /\ ListInvocation("List",
                            [Frame EXCEPT !.prefix = prefix, !.recursive = recursive],
                            Request, out)
          /\ Served(wire')
    /\ UNCHANGED <<client, parked, tool, now, sink, task>>

\* the caller, back from a call, is ready for the next one
Again ==
    /\ pc = "done"
    /\ pc' = "idle"
    /\ UNCHANGED <<client, parked, tool, now, op, req, frame, wire, sink, task, ret>>

NextStore ==
    \/ StoreUpload
    \/ StoreDownload
    \/ StoreDelete
    \/ StoreList
    \/ Again

SpecStore == InitBatch /\ [][NextStore]_vars

----------------------------------------------------------------------------
(* The oss command (src/oss/main.go, lines 86-124): a goroutine walks the
   directory and sends the names of its files on the unbuffered channel
   jobs, Concurrency workers receive them and upload, main waits for the
   workers.  log.Fatalln ends the process wherever it is called. *)

\* what the oss command leaves alone
core == <<client, now, pc, op, req, frame, wire, sink, task, ret, parked>>

\* the process runs: main has not returned and log.Fatalln was not called
Alive == ~tool.exited /\ tool.main.pc # "returned"

\* wg.Add(concurrency) (lines 112-114)
Add ==
    /\ Alive
    /\ tool.main.pc = "start"
    /\ tool' = [tool EXCEPT !.wg = @ + Concurrency, !.main.pc = "spawn"]
    /\ UNCHANGED core

\* one turn of the loop of main that starts the workers (lines 115-122)
Go ==
    /\ Alive
    /\ tool.main.pc = "spawn"
    /\ LET i == tool.main.i + 1
       IN  tool' = [tool EXCEPT !.worker[i].pc = "range",
                                !.main = [pc |-> IF i = Concurrency THEN "wait" ELSE "spawn",
                                          i  |-> i]]
    /\ UNCHANGED core

\* WaitOver of a main that does not wait
WaitOver_AtOnce(wg) == TRUE

\* whether wg.Wait() returns (line 123)
WaitOver(wg) == wg = 0

\* wg.Wait() returns and main returns (lines 123-124)
Return ==
    /\ Alive
    /\ tool.main.pc = "wait"
    /\ WaitOver(tool.wg)
    /\ tool' = [tool EXCEPT !.main.pc = "returned"]
    /\ UNCHANGED core

\* filepath.Walk calls the function with the next entry (lines 89-106): an
\* entry that is no regular file or has an ignored extension is passed over,
\* the name of a file is to be sent, and an error of the walk ends it, after
\* which log.Fatalln ends the process (lines 107-109)
Visit ==
    /\ Alive
    /\ tool.walker.pc = "walk"
    /\ tool.walker.next <= MaxFiles
    /\ \E kind \in {"file", "passed", "error"} :
          tool' = CASE kind = "file" ->
                         [tool EXCEPT !.walker = [pc |-> "send", next |-> @.next + 1,
                                                  name |-> @.next]]
                    [] kind = "passed" ->
                         [tool EXCEPT !.walker.next = @ + 1]
                    [] kind = "error" ->
                         [tool EXCEPT !.walker.pc = "fatal", !.exited = TRUE]
    /\ UNCHANGED core

\* filepath.Walk returns nil and the deferred close(jobs) runs (line 88)
WalkEnd ==
    /\ Alive
    /\ tool.walker.pc = "walk"
    /\ tool.walker.next > MaxFiles
    /\ tool' = [tool EXCEPT !.walker.pc = "end", !.jobs.closed = TRUE]
    /\ UNCHANGED core

\* jobs <- name (line 104) meets the receive of one worker in `for path :=
\* range jobs` (line 118): the channel has no buffer, the send ends when a
\* worker takes the name
Handoff ==
    /\ Alive
    /\ tool.walker.pc = "send"
    /\ \E w \in 1..Concurrency :
          /\ tool.worker[w].pc = "range"
          /\ tool' = [tool EXCEPT !.walker.pc = "walk", !.walker.name = 0,
                                  !.worker[w] = [pc |-> "upload", path |-> tool.walker.name],
                                  !.sent = Append(@, tool.walker.name),
                                  !.received = Append(@, [path |-> tool.walker.name,
                                                          by |-> w])]
    /\ UNCHANGED core

\* upload(root, path) of a worker (line 119, lines 126-160): it returns, or
\* it fails and log.Fatalln ends the process
Uploaded ==
    /\ Alive
    /\ \E w \in 1..Concurrency, ok \in BOOLEAN :
          /\ tool.worker[w].pc = "upload"
          /\ tool' = IF ok
                     THEN [tool EXCEPT !.worker[w] = [pc |-> "range", path |-> 0],
                                       !.uploaded = Append(@, [path |-> tool.worker[w].path,
                                                               by |-> w])]
                     ELSE [tool EXCEPT !.worker[w].pc = "fatal", !.exited = TRUE]
    /\ UNCHANGED core

\* the range of a worker over the closed channel ends and the deferred
\* wg.Done() runs (lines 117-120)
WorkerEnd ==
    /\ Alive
    /\ \E w \in 1..Concurrency :
          /\ tool.worker[w].pc = "range"
          /\ tool.jobs.closed
          /\ tool' = [tool EXCEPT !.worker[w].pc = "done", !.wg = @ - 1]
    /\ UNCHANGED core

NextTool ==
    \/ Add
    \/ Go
    \/ Return
    \/ Visit
    \/ WalkEnd
    \/ Handoff
    \/ Uploaded
    \/ WorkerEnd

\* the goroutines are scheduled: a step that can be taken is taken
SpecTool == InitBatch /\ [][NextTool]_vars /\ WF_vars(NextTool)

----------------------------------------------------------------------------
(* what the claims speak of *)

Range(f) == {f[i] : i \in DOMAIN f}

Last(q) == q[Len(q)]

RECURSIVE ConcatAll(_)
\* the concatenation of the sequences of a sequence
ConcatAll(qs) == IF qs = <<>> THEN <<>> ELSE Head(qs) \o ConcatAll(Tail(qs))

\* the delete requests and the page requests performed so far
Posts == SelectSeq(wire, LAMBDA e : e.method = <<"POST">>)
Gets  == SelectSeq(wire, LAMBDA e : e.method = <<"GET">>)

\* the keys a delete request carries in its body
KeysCarried(e) ==
    LET object == e.body.data[3].Delete.Object
    IN  [i \in 1..Len(object) |-> object[i].Key]

\* a key as the service names it: without the leading slash
Stripped(keys) == [i \in 1..Len(keys) |-> IF keys[i][1] = "/" THEN Tail(keys[i]) ELSE keys[i]]

\* the exchange got a 200 whose body was read to its end
Answered(e) == ~e.out.transport /\ e.out.status = 200 /\ e.out.readErrAt = -1

\* the keys and the common prefixes of the page an exchange was answered with
PageKeys(e) ==
    LET parts == SelectSeq(e.out.body, LAMBDA part : part.el = "Contents")
    IN  [i \in 1..Len(parts) |-> parts[i].val.Key]
PageDirs(e) ==
    LET parts == SelectSeq(e.out.body, LAMBDA part : part.el = "CommonPrefixes")
    IN  [i \in 1..Len(parts) |-> parts[i].val.Prefix]
PageTruncated(e) == e.out.body[1].val.IsTruncated
PageNextMarker(e) == e.out.body[1].val.NextMarker

\* the keys DeleteWithContext was called with
DeleteInput == IF op.name = "Delete" THEN op.remotes ELSE frame.deleted

\* C1: a Delete of n keys whose requests all succeed issues ceil(n/1000)
\* delete requests, each of at most 1000 keys and each but the last of
\* exactly 1000; the chunks in request order make up the input list (each
\* key named as the service names it), no key lost or sent twice.
C1_DeleteChunks ==
    (pc = "done" /\ op.name = "Delete" /\ ret.err = Nil) =>
        LET n == Len(op.remotes)
            chunks == [k \in 1..Len(wire) |-> KeysCarried(wire[k])]
        IN  /\ Len(wire) = (n + 999) \div 1000
            /\ \A k \in 1..Len(wire) :
                  /\ wire[k].method = <<"POST">>
                  /\ Len(chunks[k]) <= 1000
                  /\ k < Len(wire) => Len(chunks[k]) = 1000
            /\ ConcatAll(chunks) = Stripped(op.remotes)

C1_Witness ==
    /\ pc = "done" /\ op.name = "Delete" /\ ret.err = Nil
    /\ Len(op.remotes) = 2001 /\ Len(wire) = 3 /\ Len(KeysCarried(wire[3])) = 1

\* C2: the delete requests are issued one after the other, request k
\* carrying the k-th chunk of the keys; every request but the last returned
\* without error; a request that fails is the last one (the call has
\* returned), and its error is the error returned to the caller.
C2_StopAtFirstFailure ==
    (op.name \in {"Delete", "DeleteRecursive"} /\ Posts # <<>>) =>
        LET posts == Posts
            n == Len(DeleteInput)
        IN  /\ \A k \in 1..Len(posts) :
                  /\ k < Len(posts) => posts[k].err = Nil
                  /\ KeysCarried(posts[k])
                       = Stripped(SubSeq(DeleteInput, 1000 * (k - 1) + 1, Min(1000 * k, n)))
            /\ Last(posts).err # Nil => pc = "done"
            /\ pc = "done" => ret.err = Last(posts).err

C2_Witness ==
    /\ pc = "done" /\ op.name = "Delete" /\ Len(wire) = 2
    /\ wire[1].err = Nil /\ wire[2].err # Nil /\ ret.err = wire[2].err
    /\ Len(op.remotes) = 2001

\* C3: a Delete of no keys issues no request and returns a nil error.
C3_EmptyDelete ==
    (op.name = "Delete" /\ Len(op.remotes) = 0) =>
        pc = "done" /\ wire = <<>> /\ ret.returned /\ ret.err = Nil

C3_Witness == op.name = "Delete" /\ Len(op.remotes) = 0 /\ pc = "done"

\* the names the listing of a recursive delete returned, those an exception
\* function is true of, and the others
ListedNames == [i \in 1..Len(frame.result.Files) |-> frame.result.Files[i].Name]
IsKept(name) == \E p \in Range(op.exceptions) : HasPrefix(name, p)
KeptNames == SelectSeq(ListedNames, IsKept)
CandidateNames == SelectSeq(ListedNames, LAMBDA name : ~IsKept(name))

\* the listing of a recursive delete returned without error
ListingDone ==
    /\ op.name = "DeleteRecursive"
    /\ pc = "delete" \/ (pc = "done" /\ (ret.err = Nil \/ Posts # <<>>))

\* C4: in a recursive delete whose listing succeeded, a listed key some
\* exception function is true of is in no delete request, is not in the
\* deleted list returned and is in the undeleted list returned, whether the
\* delete call succeeded or failed.
C4_ExceptedKept ==
    ListingDone =>
        LET kept == Range(KeptNames)
            sent == UNION {Range(KeysCarried(Posts[k])) : k \in 1..Len(Posts)}
        IN  /\ kept \cap sent = {}
            /\ pc = "done" => /\ kept \cap Range(ret.deleted) = {}
                              /\ kept \subseteq Range(ret.undeleted)

C4_Witness ==
    /\ ListingDone /\ pc = "done" /\ ret.err # Nil /\ Len(Posts) = 2
    /\ KeptNames # <<>> /\ Len(op.exceptions) = 2

\* C5: when the delete call of a recursive delete fails, on whichever chunk,
\* the call returns that error, an empty deleted list, and an undeleted list
\* holding every listed key: the excepted keys, then all the candidates.
C5_FailedDeleteReportsAll ==
    (op.name = "DeleteRecursive" /\ pc = "done" /\ Posts # <<>> /\ Last(Posts).err # Nil) =>
        /\ ret.err = Last(Posts).err
        /\ ret.deleted = <<>>
        /\ ret.undeleted = KeptNames \o CandidateNames
        /\ Range(ret.undeleted) = Range(ListedNames)

C5_Witness ==
    /\ op.name = "DeleteRecursive" /\ pc = "done" /\ Len(Posts) = 2
    /\ Posts[1].err = Nil /\ Posts[2].err # Nil
    /\ KeptNames # <<>> /\ Len(CandidateNames) > 1000

\* C7: a listing answered with N pages, the first N-1 flagged truncated and
\* the last not, every request succeeding, returns after exactly N page
\* requests with a nil error, its Files and Dirs the concatenation in page
\* order of the files and directories of the pages.
C7_ListAggregates ==
    (op.name = "List" /\ \A k \in 1..Len(wire) : Answered(wire[k])) =>
        /\ \A k \in 1..Len(wire) : k < Len(wire) => PageTruncated(wire[k])
        /\ pc = "done" <=> (wire # <<>> /\ ~PageTruncated(Last(wire)))
        /\ pc = "done" =>
              /\ ret.err = Nil
              /\ [i \in 1..Len(ret.result.Files) |-> ret.result.Files[i].Name]
                    = ConcatAll([k \in 1..Len(wire) |-> PageKeys(wire[k])])
              /\ [i \in 1..Len(ret.result.Dirs) |-> ret.result.Dirs[i].Name]
                    = ConcatAll([k \in 1..Len(wire) |-> PageDirs(wire[k])])

C7_Witness ==
    /\ op.name = "List" /\ pc = "done" /\ Len(wire) = 2 /\ ret.err = Nil
    /\ Answered(wire[1]) /\ Answered(wire[2])
    /\ Len(ret.result.Files) > 1000 /\ Len(ret.result.Dirs) = 2

\* C8: when the service flags a page truncated and names as next marker the
\* marker it was given, the listing stops there: it sends no further page
\* request, and what it returns is an error.
C8_StuckMarkerStops ==
    \A k \in 1..Len(wire) :
        ( /\ op.name = "List"
          /\ Answered(wire[k])
          /\ PageTruncated(wire[k])
          /\ PageNextMarker(wire[k]) = wire[k].queries["marker"] )
        => /\ k = Len(wire)
           /\ pc = "done" => ret.err # Nil

\* C6: Exists issues one HEAD request; it returns (true, nil) on a 200,
\* (false, nil) on a 404, a non-nil error on any other status, and false
\* with the transport error when no response was obtained.
C6_ExistsOutcomes ==
    (op.name = "Exists" /\ pc = "done") =>
        /\ Len(wire) = 1
        /\ wire[1].method = <<"HEAD">>
        /\ LET out == wire[1].out
           IN  /\ out.transport => (~ret.exists /\ ret.err = TransportError)
               /\ (~out.transport /\ out.status = 200) => (ret.exists /\ ret.err = Nil)
               /\ (~out.transport /\ out.status = 404) => (~ret.exists /\ ret.err = Nil)
               /\ (~out.transport /\ out.status \notin {200, 404}) => ret.err # Nil

C6_Witness ==
    /\ op.name = "Exists" /\ pc = "done" /\ ~wire[1].out.transport
    /\ wire[1].out.status = 404 /\ ~ret.exists /\ ret.err = Nil

RECURSIVE Trimmed(_)
\* a text without the white space around it
Trimmed(text) ==
    IF text = <<>> THEN text
    ELSE IF Head(text) \in {" ", "\n"} THEN Trimmed(Tail(text))
    ELSE IF Last(text) \in {" ", "\n"} THEN Trimmed(SubSeq(text, 1, Len(text) - 1))
    ELSE text

\* the text of the error of a response with this body: the Message of the
\* two structured documents that carry one, else the trimmed body
ExpectedText(body) ==
    CASE body = InvalidDigest -> <<"The Content-MD5 you specified was invalid.">>
      [] body = AccessDenied  -> <<" ", "denied", " ">>
      [] OTHER                -> Trimmed(body)

\* the exchange got a status that is no success and no 404 to a HEAD probe
Refused(e) ==
    ~e.out.transport /\ e.out.status # 200 /\ ~(e.out.status = 404 /\ e.method = <<"HEAD">>)

Streamed == pc = "done" /\ ~wire[1].out.transport /\ wire[1].out.status = 200 /\ req.hasSink

\* C10 as claimed, its parts that hold in every state: an async download
\* answered 200 returns nil whatever becomes of the copy, and a Download
\* answered 200 has returned only with the whole body in the sink.
C10_AsClaimed ==
    /\ (op.name = "DownloadAsync" /\ Streamed) => ret.err = Nil
    /\ (op.name = "Download" /\ Streamed) =>
          (task.state = "none" /\ sink.data = wire[1].out.body)

\* the copy of a synchronous download is over: the sink holds the body up
\* to its end, or up to the symbol at which a Read failed or the sink
\* refused a Write, and the body is closed
CopyOver ==
    /\ task.state = "none"
    /\ wire[1].closes = 1
    /\ Len(sink.data) <= Len(wire[1].out.body)
    /\ sink.data = SubSeq(wire[1].out.body, 1, Len(sink.data))
    /\ \/ sink.data = wire[1].out.body
       \/ wire[1].out.readErrAt = Len(sink.data)
       \/ sink.room = 0

\* C10 as amended: an async download answered 200 returns nil whatever
\* becomes of the copy, and once it has returned nothing the caller holds
\* (the values returned, the Request) changes when the copy moves on, fails
\* or ends; a Download answered 200 returns only after its copy is over: the
\* body read to its end, or the copy stopped by a read or a write error.
C10_DetachedCopy ==
    /\ []((op.name = "DownloadAsync" /\ Streamed) => ret.err = Nil)
    /\ []((op.name = "Download" /\ Streamed) => CopyOver)
    /\ [][ret.returned => (ret' = ret /\ req' = req /\ pc' = pc)]_vars

\* the async download has returned nil and the copy has not moved a symbol
C10_Witness ==
    /\ op.name = "DownloadAsync" /\ Streamed /\ ret.returned /\ ret.err = Nil
    /\ task.state = "copying" /\ task.pos = 0 /\ sink.data = <<>>
    /\ Len(wire[1].out.body) > 0 /\ wire[1].closes = 0

\* the objects the store holds now
Store == StoreOf(wire)

\* the object the client addresses as remote: the one at Client.URL(remote)
Held(remote) == {o \in Store : o.key = ObjectKey(ClientURL(client, remote))}

\* C11: against a store that keeps what it accepts and answers every read:
\* once Upload returned nil the store holds the uploaded bytes under the key,
\* and a Download (into a buffer) of a key the store holds returns nil and
\* writes exactly the bytes held, so a Download that follows the Upload
\* writes the uploaded bytes; once Delete returned nil the store holds the
\* key no longer, and a List returns nil and names exactly the files the
\* store holds under the prefix, so a List that follows the Delete does not
\* name the key.
C11_RoundTrip ==
    LET n == Len(wire)
    IN  /\ (pc = "done" /\ op.name = "Upload" /\ ret.err = Nil) =>
              Held(op.remote) = {[key |-> TrimPrefix(op.remote), data |-> wire[n].body.data]}
        /\ (pc = "done" /\ op.name = "Download" /\ Held(op.remote) # {}) =>
              /\ ret.err = Nil
              /\ \A o \in Held(op.remote) : sink.data = o.data
        /\ (pc = "done" /\ op.name = "Download" /\ n >= 2 /\ wire[n - 1].method = <<"PUT">>
               /\ wire[n - 1].err = Nil /\ wire[n - 1].url = wire[n].url) =>
              (ret.err = Nil /\ sink.data = wire[n - 1].body.data)
        /\ (pc = "done" /\ op.name = "Delete" /\ ret.err = Nil) =>
              \A i \in 1..Len(op.remotes) : Held(op.remotes[i]) = {}
        /\ (pc = "done" /\ op.name = "List") =>
              /\ ret.err = Nil
              /\ \A i \in 1..Len(ret.result.Files) :
                    \E o \in Store : o.key = ret.result.Files[i].Name
              /\ (n >= 2 /\ wire[n - 1].method = <<"POST">> /\ wire[n - 1].err = Nil) =>
                    \A i \in 1..Len(ret.result.Files) :
                        ret.result.Files[i].Name \notin KeysNamed(wire[n - 1])

\* an upload, a download of the key that wrote the uploaded bytes, a delete
\* of the key under its other spelling, and a listing that names no file
C11_Witness ==
    /\ pc = "done" /\ op.name = "List" /\ ret.err = Nil /\ Len(wire) = 4
    /\ wire[1].method = <<"PUT">> /\ wire[1].err = Nil /\ Len(wire[1].body.data) > 0
    /\ wire[2].method = <<"GET">> /\ wire[2].err = Nil /\ sink.data = wire[1].body.data
    /\ wire[3].method = <<"POST">> /\ wire[3].err = Nil
    /\ ObjectKey(wire[1].url) \in KeysNamed(wire[3])
    /\ ret.result.Files = <<>>

\* C12: the map PostForm returns has exactly the fields key, policy,
\* OSSAccessKeyId and signature; key is the key given without its leading
\* slash and OSSAccessKeyId is the access key id of the client.
C12_PostFormFields ==
    (pc = "done" /\ op.name = "PostForm") =>
        /\ DOMAIN ret.form = {"key", "policy", "OSSAccessKeyId", "signature"}
        /\ ret.form["key"] = IF op.key[1] = "/" THEN Tail(op.key) ELSE op.key
        /\ ret.form["OSSAccessKeyId"] = client.AccessKeyId

C12_Witness ==
    /\ pc = "done" /\ op.name = "PostForm"
    /\ op.key = <<"/", "a", "/", "b">> /\ op.maxSize = 1048576 /\ op.duration = 120
    /\ Len(op.extraConditions) > 0
    /\ ret.form["key"] = <<"a", "/", "b">>

\* the message whose signature the Authorization header of the exchange carries
SignedOf(e) == e.header.Authorization[4][3]

\* C13: every request sent carries one signature, made with the secret of
\* the client over the method of the request, the Content-MD5 it sends (the
\* empty string when it sends none), the Content-Type it sends, which is
\* never empty, and the Date it sends; the Date is the time of that
\* execution, also when a listing executes its Request again for a later page.
C13_SignedAsSent ==
    /\ [](\A k \in 1..Len(wire) :
            LET e == wire[k]
            IN  /\ Len(e.header.Authorization) = 4
                /\ e.header.Authorization[2] = client.AccessKeyId
                /\ e.header.Authorization[4][2] = client.AccessKeySecret
                /\ SignedOf(e)[1] = e.method
                /\ SignedOf(e)[2] = (IF e.header.ContentMD5.set THEN e.header.ContentMD5.val
                                     ELSE <<>>)
                /\ e.header.ContentMD5.set => e.header.ContentMD5.val # <<>>
                /\ SignedOf(e)[3] = e.header.ContentType
                /\ e.header.ContentType # <<>>
                /\ SignedOf(e)[4] = e.header.Date)
    /\ [][Len(wire') > Len(wire) =>
            wire'[Len(wire')].header.Date = <<"Thu, 01 Jan 1970 00:00:", ToString(now), " GMT">>]_vars

\* the second page request of a listing, sent a second after the first, and
\* a delete request, which carries a Content-MD5
C13_Witness ==
    /\ pc = "done" /\ op.name = "DeleteRecursive" /\ Len(wire) >= 3
    /\ wire[1].method = <<"GET">> /\ wire[2].method = <<"GET">>
    /\ wire[1].header.Date # wire[2].header.Date
    /\ SignedOf(wire[2])[4] = wire[2].header.Date
    /\ wire[3].method = <<"POST">> /\ wire[3].header.ContentMD5.set
    /\ SignedOf(wire[3])[2] = wire[3].header.ContentMD5.val

\* no exchange is made again: an operation of one request makes one
\* exchange at most, and an exchange of a batch operation is followed by
\* another only when it ended without error, a page request by the request
\* for the page its answer named, a delete request by one for other keys
NoRetry ==
    /\ (pc = "done" /\ op.name \in {"Upload", "Download", "DownloadAsync", "Exists", "ImageInfo"})
          => Len(wire) <= 1
    /\ \A k \in 1..(Len(wire) - 1) :
          /\ ~wire[k].out.transport
          /\ wire[k].err = Nil
          /\ (wire[k].method = <<"GET">> /\ wire[k + 1].method = <<"GET">>) =>
                /\ Answered(wire[k])
                /\ PageTruncated(wire[k])
                /\ wire[k + 1].queries["marker"] = PageNextMarker(wire[k])
          /\ (wire[k].method = <<"POST">> /\ wire[k + 1].method = <<"POST">>) =>
                Range(KeysCarried(wire[k])) \cap Range(KeysCarried(wire[k + 1])) = {}

\* the operation whose request failed in transport returns that failure
TransportReturned ==
    \A k \in 1..Len(wire) :
        wire[k].out.transport =>
            /\ k = Len(wire)
            /\ pc = "done" => ret.err = TransportError

\* C14: no request is retried: an operation of one request makes at most one
\* exchange, a listing one per page and a delete one per chunk, and a
\* transport failure ends the operation, which returns it as its error.
C14_NoRetryTransportReturned == NoRetry /\ TransportReturned

\* the body of the last exchange was answered 200 and copied in the call,
\* and the copy stopped before the end of the body
CopyFailedInCall ==
    /\ pc = "done" /\ op.name \in {"Download", "ImageInfo"} /\ Len(wire) = 1
    /\ ~wire[1].out.transport /\ wire[1].out.status = 200 /\ req.hasSink
    /\ wire[1].copyFailed

\* C15: no error is dropped outside the detached copy: a synchronous
\* Download or an ImageInfo call that got a 200 and whose copy of the body
\* into the sink stopped at a read or write error returns a non-nil error.
C15_CopyErrorReturned == CopyFailedInCall => ret.err # Nil

\* C16 as claimed: after an executed request returned, whatever its outcome,
\* the ResponseContentLength of the Request is set, to the content length
\* the response declared.
C16_LengthAlwaysSet ==
    wire # <<>> =>
        /\ req.ResponseContentLength.set
        /\ req.ResponseContentLength.val = wire[Len(wire)].out.length

\* the last exchange executed the Request of the exchange before it again (a
\* later page of a listing)
ExecutedAgain ==
    /\ Len(wire) > 1
    /\ wire[Len(wire)].method = <<"GET">> /\ wire[Len(wire) - 1].method = <<"GET">>
    /\ DOMAIN wire[Len(wire)].queries # {} /\ DOMAIN wire[Len(wire) - 1].queries # {}

\* C16 as amended: after an executed request returned with a response (200,
\* 404 on a probe, any other status) Response is that response and
\* ResponseContentLength is set to the length it declared, -1 when it
\* declared none; after a transport failure there is no response and both
\* fields are left as they were: nil on a new Request, those of the page
\* before on the Request a listing executes again.
C16_LengthRecorded ==
    wire # <<>> =>
        LET n == Len(wire)
            e == wire[n]
        IN  /\ ~e.out.transport =>
                  /\ req.Response = [present |-> TRUE, StatusCode |-> e.out.status]
                  /\ req.ResponseContentLength = [set |-> TRUE, val |-> e.out.length]
            /\ (e.out.transport /\ ~ExecutedAgain) =>
                  /\ ~req.Response.present
                  /\ ~req.ResponseContentLength.set
            /\ (e.out.transport /\ ExecutedAgain) =>
                  /\ req.Response = [present |-> TRUE, StatusCode |-> wire[n - 1].out.status]
                  /\ req.ResponseContentLength = [set |-> TRUE, val |-> wire[n - 1].out.length]

\* an executed request answered with a status that is no success and declares
\* no length: the length recorded is -1, not the length of the body read
C16_Witness ==
    /\ pc = "done" /\ Len(wire) = 1 /\ ~wire[1].out.transport
    /\ wire[1].out.status # 200
    /\ wire[1].out.length = -1 /\ Len(wire[1].out.body) > 0
    /\ req.ResponseContentLength = [set |-> TRUE, val |-> -1]

\* the extra conditions of the call have one json.Marshal cannot encode
Unencodable ==
    \E i \in 1..Len(op.extraConditions) : op.extraConditions[i].kind = "chan"

\* C18: a PostForm whose policy document cannot be encoded returns an error
\* to its caller and returns no form built from the failed encoding.
C18_EncodingFailureSurfaced ==
    (pc = "done" /\ op.name = "PostForm" /\ Unencodable) =>
        /\ ret.err # Nil
        /\ DOMAIN ret.form = {}

\* the page requests of the listing of the call, in the order they were sent
PageRequests == SelectSeq(wire, LAMBDA e : e.method = <<"GET">>)

\* the head of the ListBucketResult document an exchange was answered with
AnsweredHead(e) == e.out.body[1].val

\* C19: the page requests of one listing are sent one after the other: the
\* first carries the empty marker, every later one the NextMarker of the
\* page before it, which was answered 200, read to its end and truncated;
\* every page request carries max-keys=1000 and the same normalized prefix,
\* and the delimiter "/" exactly when the listing is not recursive; no page
\* request follows a page that is not truncated.
C19_PagesInSequence ==
    (op.name \in {"List", "DeleteRecursive"}) =>
        LET pages     == PageRequests
            recursive == IF op.name = "List" THEN op.recursive ELSE TRUE
        IN  \A k \in 1..Len(pages) :
               LET q == pages[k].queries
               IN  /\ DOMAIN q = {"max-keys", "prefix", "marker"}
                                   \cup (IF recursive THEN {} ELSE {"delimiter"})
                   /\ q["max-keys"] = <<"1000">>
                   /\ q["prefix"] = <<"tmp", "/">>
                   /\ ~recursive => q["delimiter"] = <<"/">>
                   /\ k = 1 => q["marker"] = <<>>
                   /\ k > 1 =>
                        /\ ~pages[k - 1].out.transport
                        /\ pages[k - 1].out.status = 200
                        /\ pages[k - 1].out.readErrAt = -1
                        /\ AnsweredHead(pages[k - 1]).IsTruncated
                        /\ q["marker"] = AnsweredHead(pages[k - 1]).NextMarker

\* a listing of two pages has returned: the second request carried the marker
\* of the first page and the second page was not truncated
C19_Witness ==
    /\ pc = "done" /\ op.name = "List" /\ ~op.recursive
    /\ Len(PageRequests) = 2 /\ Len(wire) = 2
    /\ wire[2].queries["marker"] = <<"tmp", "/", "m", "1">>
    /\ AnsweredHead(wire[1]).NextMarker = <<"tmp", "/", "m", "1">>
    /\ ~wire[2].out.transport /\ wire[2].out.status = 200
    /\ ~AnsweredHead(wire[2]).IsTruncated
    /\ ret.err = Nil

\* p is s without its leading and trailing slashes followed by one slash, or
\* the empty string when s has nothing but slashes
IsNormalOf(p, s) ==
    IF \A i \in 1..Len(s) : s[i] = "/"
    THEN p = <<>>
    ELSE \E lo \in 1..Len(s), hi \in 1..Len(s) :
            /\ lo <= hi /\ s[lo] # "/" /\ s[hi] # "/"
            /\ \A i \in 1..Len(s) : (i < lo \/ i > hi) => s[i] = "/"
            /\ p = SubSeq(s, lo, hi) \o <<"/">>

\* C20: the prefix every page request of a listing carries is the prefix of
\* the call without its leading and trailing slashes and with one slash
\* appended, or the empty string for a prefix that is empty or made of
\* slashes only; normalizing it again gives the same prefix, so every later
\* page carries the prefix of the first page.
C20_PrefixNormalized ==
    (op.name = "List") =>
        /\ \A k \in 1..Len(wire) :
              /\ IsNormalOf(wire[k].queries["prefix"], op.prefix)
              /\ IsNormalOf(wire[k].queries["prefix"], wire[k].queries["prefix"])
              /\ wire[k].queries["prefix"] = wire[1].queries["prefix"]
        /\ pc = "list" => IsNormalOf(frame.prefix, op.prefix)

\* a listing of two pages whose prefix has two slashes before the name and one
\* after it: both page requests carry the name followed by one slash
C20_Witness ==
    /\ op.name = "List" /\ Len(wire) = 2
    /\ op.prefix = <<"/", "/", "a", "/">>
    /\ wire[1].queries["prefix"] = <<"a", "/">>
    /\ wire[2].queries["prefix"] = <<"a", "/">>

\* the answers a call got, in order
Outs(log) == [k \in 1..Len(log) |-> log[k].out]

RECURSIVE AloneList(_, _, _, _, _, _)
\* Request.list run with no other caller on Request r, answered outs: the
\* exchanges, whether it returned, and the error and result it returned
AloneList(prefix, marker, recursive, r, result, outs) ==
    IF outs = <<>>
    THEN [wire |-> <<>>, done |-> FALSE, err |-> Nil, result |-> result]
    ELSE LET p   == NormalizePrefix(prefix)
             r1  == [r EXCEPT !.remote = <<"/">>, !.canonRes = <<"/">>,
                              !.queries = ListQueries(p, marker, recursive),
                              !.method = <<"GET">>, !.hasSink = TRUE]
             d   == Do(client, r1, now, <<>>, Head(outs), Buffer)
             dec == DecodeList(d.sink.data)
         IN  IF dec.err # Nil
             THEN [wire |-> <<d.exchange>>, done |-> TRUE, err |-> dec.err, result |-> result]
             ELSE IF dec.list.IsTruncated
             THEN LET rest == AloneList(p, dec.list.NextMarker, recursive, d.req,
                                        Accumulate(result, dec.list), Tail(outs))
                  IN  [rest EXCEPT !.wire = <<d.exchange>> \o @]
             ELSE [wire |-> <<d.exchange>>, done |-> TRUE, err |-> d.err,
                   result |-> Accumulate(result, dec.list)]

RECURSIVE AloneDelete(_, _)
\* DeleteWithContext run with no other caller, answered outs
AloneDelete(remotes, outs) ==
    IF NoKeys(remotes)
    THEN [wire |-> <<>>, done |-> TRUE, err |-> Nil, result |-> NoReturn.result]
    ELSE IF outs = <<>>
    THEN [wire |-> <<>>, done |-> FALSE, err |-> Nil, result |-> NoReturn.result]
    ELSE LET d == Do(client, DeleteRequest(CurrentOf(remotes)), now, <<>>, Head(outs), Buffer)
         IN  IF Recurses(d.err, RestOf(remotes))
             THEN LET rest == AloneDelete(RestOf(remotes), Tail(outs))
                  IN  [rest EXCEPT !.wire = <<d.exchange>> \o @]
             ELSE [wire |-> <<d.exchange>>, done |-> TRUE, err |-> d.err,
                   result |-> NoReturn.result]

\* Client.download run with no other caller, answered outs
AloneDownload(remote, outs) ==
    IF outs = <<>>
    THEN [wire |-> <<>>, done |-> FALSE, err |-> Nil, result |-> NoReturn.result]
    ELSE LET d == Do(client,
                     [Request EXCEPT !.remote = remote, !.method = <<"GET">>,
                                     !.hasSink = TRUE],
                     now, <<>>, Head(outs), Buffer)
         IN  [wire |-> <<d.exchange>>, done |-> TRUE, err |-> d.err,
              result |-> NoReturn.result]

\* the call o run with no other caller, answered outs
Alone(o, outs) ==
    CASE o.name = "List"     -> AloneList(o.prefix, <<>>, o.recursive, Request,
                                          NoReturn.result, outs)
      [] o.name = "Delete"   -> AloneDelete(o.remotes, outs)
      [] o.name = "Download" -> AloneDownload(o.remote, outs)
      [] OTHER -> [wire |-> <<>>, done |-> FALSE, err |-> Nil, result |-> NoReturn.result]

\* the requests a caller sent, with their method, URL, queries and headers,
\* and what its call returned are those of the same call, given the same
\* answers, run with no other caller
AsIfAlone(caller) ==
    LET a == Alone(caller.op, Outs(caller.wire))
    IN  /\ caller.wire = a.wire
        /\ (caller.pc = "done") = a.done
        /\ caller.pc = "done" =>
              /\ caller.ret.err = a.err
              /\ caller.ret.result = a.result

\* C17: no step of an operation changes the Client, and with two callers of
\* one Client switched at any point, each caller's requests (method, path,
\* queries, headers) and its return are those of its call run alone.
C17_Independent ==
    /\ [](AsIfAlone(Running) /\ AsIfAlone(parked))
    /\ [][client' = client]_vars

\* a whole listing of two pages ran while the delete of the other caller was
\* between its two requests
C17_Witness ==
    /\ pc = "done" /\ op.name = "List" /\ Len(wire) = 2 /\ ret.err = Nil
    /\ parked.pc = "delete" /\ parked.op.name = "Delete" /\ Len(parked.wire) = 1

\* the expiration written in the policy of the form returned
PolicyExpiration == ret.form["policy"][2][1].expiration

\* C21: the expiration in the policy of a form is the instant of the call
\* plus the duration (10 minutes for a duration that is zero or negative),
\* rounded to a whole second: it is a whole number of seconds, the nearest
\* to that sum, whatever the duration.
C21_ExpirationWholeSeconds ==
    (pc = "done" /\ op.name = "PostForm" /\ ~Unencodable) =>
        LET d   == IF op.duration > 0 THEN op.duration ELSE 10 * 60 * HalvesPerSecond
            sum == now * HalvesPerSecond + op.half + d
        IN  /\ PolicyExpiration % HalvesPerSecond = 0
            /\ PolicyExpiration \in {sum, sum + 1}

\* the keys of the Contents elements an exchange was answered with
KeysAnswered(e) ==
    {e.out.body[i].val.Key : i \in {j \in 1..Len(e.out.body) : e.out.body[j].el = "Contents"}}

\* C22: a listing whose page request is refused with a structured error
\* document returns an error whose text is the Message of the document, one
\* whose page request fails in transport returns the transport error, and in
\* both cases the result returned holds the files of the pages fetched before.
C22_ListFailureReturned ==
    (pc = "done" /\ op.name = "List" /\ wire # <<>>) =>
        LET e == wire[Len(wire)]
            structured == /\ ~e.out.transport /\ e.out.status # 200
                          /\ e.out.body = AccessDenied /\ e.out.readErrAt = -1
        IN  /\ e.out.transport => ret.err = TransportError
            /\ structured => ret.err.text = <<" ", "denied", " ">>
            /\ (e.out.transport \/ structured) =>
                  \A j \in 1..(Len(wire) - 1) :
                      KeysAnswered(wire[j]) \subseteq
                          {ret.result.Files[i].Name : i \in 1..Len(ret.result.Files)}

\* the keys of the delete requests the service accepted
KeysAccepted ==
    UNION {Range(KeysCarried(Posts[k])) : k \in {j \in 1..Len(Posts) : Accepted(Posts[j])}}

\* C23 as claimed: no key in the undeleted list a recursive delete returns
\* was in a delete request the service accepted.
C23_UndeletedNeverAccepted ==
    (op.name = "DeleteRecursive" /\ pc = "done") =>
        Range(ret.undeleted) \cap KeysAccepted = {}

\* C23 as amended: a key an exception function is true of is in no delete
\* request; when the recursive delete returns nil its undeleted list holds
\* those keys only, none of a request the service accepted; when its delete
\* call failed, its undeleted list holds every candidate too, those of the
\* chunks the service accepted before the failing one included.
C23_UndeletedReported ==
    (ListingDone /\ pc = "done") =>
        /\ Range(KeptNames) \cap KeysAccepted = {}
        /\ ret.err = Nil =>
              /\ ret.undeleted = KeptNames
              /\ Range(ret.undeleted) \cap KeysAccepted = {}
        /\ ret.err # Nil =>
              /\ KeysAccepted \subseteq Range(ret.undeleted)
              /\ Range(ret.undeleted) = Range(KeptNames) \cup Range(CandidateNames)

\* the first chunk of 1000 candidates was accepted, the second refused: a key
\* of the first chunk is reported undeleted
C23_Witness ==
    /\ op.name = "DeleteRecursive" /\ pc = "done" /\ Len(Posts) = 2
    /\ Accepted(Posts[1]) /\ ~Accepted(Posts[2]) /\ ret.err # Nil
    /\ Len(KeysCarried(Posts[1])) = 1000
    /\ KeysCarried(Posts[1])[1] \in Range(ret.undeleted)

\* the one exchange of the call got a response
GotResponse == Len(wire) = 1 /\ ~wire[1].out.transport

\* the copy of the body of the exchange is with the detached goroutine
CopyDetached == GotResponse /\ task.state = "copying" /\ task.exch = 1

\* C24: the body of every response obtained is closed once: when the call
\* returns on every path but the detached copy (200 without a sink, 200
\* copied in the call, 404 to a probe, any other status), never a second
\* time, and, the detached goroutine being scheduled, in the end on the
\* detached path too; with no response there is no body to close.
C24_BodyClosedOnce ==
    /\ [](\A k \in 1..Len(wire) :
            /\ wire[k].closes <= 1
            /\ wire[k].out.transport => wire[k].closes = 0
            /\ (~wire[k].out.transport /\ ~(task.state = "copying" /\ task.exch = k))
                  => wire[k].closes = 1)
    /\ [][\A k \in 1..Len(wire) : wire[k].closes = 1 => wire'[k].closes = 1]_vars
    /\ (CopyDetached ~> (GotResponse /\ wire[1].closes = 1 /\ task.state = "ended"))

\* the detached copy of a body of two symbols is over and the body is closed
C24_Witness ==
    /\ op.name = "DownloadAsync" /\ GotResponse /\ wire[1].out.status = 200
    /\ task.state = "ended" /\ task.exch = 1
    /\ sink.data = wire[1].out.body /\ Len(sink.data) = 2
    /\ wire[1].closes = 1

\* the receipts and the uploads of a name
Receipts(name) == {i \in 1..Len(tool.received) : tool.received[i].path = name}
Uploads(name)  == {i \in 1..Len(tool.uploaded) : tool.uploaded[i].path = name}

\* C25 as claimed: once the process is over, every name the walk sent on
\* jobs was received and uploaded by exactly one worker.
C25_EverySentUploaded ==
    ~Alive => \A i \in 1..Len(tool.sent) :
                 /\ Cardinality(Receipts(tool.sent[i])) = 1
                 /\ Cardinality(Uploads(tool.sent[i])) = 1

\* every name sent was received by one worker, which uploads it or has
\* uploaded it, once
OneWorkerEach ==
    \A i \in 1..Len(tool.sent) :
        LET name == tool.sent[i]
        IN  /\ \A k \in 1..Len(tool.sent) : tool.sent[k] = name => k = i
            /\ Receipts(name) = {i}
            /\ Cardinality(Uploads(name)) <= 1
            /\ \A u \in Uploads(name) : tool.uploaded[u].by = tool.received[i].by
            /\ Uploads(name) = {} =>
                  /\ tool.worker[tool.received[i].by].path = name
                  /\ tool.worker[tool.received[i].by].pc \in {"upload", "fatal"}

\* main has returned only after the walk closed jobs and every worker ended,
\* every name sent uploaded
ReturnedAfterAll ==
    tool.main.pc = "returned" =>
        /\ ~tool.exited
        /\ tool.walker.pc = "end" /\ tool.jobs.closed
        /\ \A w \in 1..Concurrency : tool.worker[w].pc = "done"
        /\ \A i \in 1..Len(tool.sent) : Cardinality(Uploads(tool.sent[i])) = 1

\* a send on jobs ends in the step in which a worker that was receiving
\* takes the name
SendMeetsReceive ==
    (tool.walker.pc = "send" /\ tool'.walker.pc # "send") =>
        \E w \in 1..Concurrency :
            /\ tool.worker[w].pc = "range"
            /\ tool'.worker[w] = [pc |-> "upload", path |-> tool.walker.name]

\* C25 as amended: every name the walk sends on jobs is received by exactly
\* one worker, in the step that ends the send, and uploaded by that worker
\* at most once; main returns only after the walk closed jobs and every
\* worker ended, every name sent then uploaded exactly once; while the
\* process runs some goroutine can take a step, and the process ends: main
\* returns, or the walk or an upload fails and log.Fatalln ends the process,
\* in which case main does not return and the names other workers were
\* uploading are left without upload.
C25_WorkerPool ==
    /\ [](OneWorkerEach /\ ReturnedAfterAll)
    /\ [][SendMeetsReceive]_vars
    /\ [](Alive => ENABLED NextTool)
    /\ [](tool.exited => tool.main.pc # "returned")
    /\ <>(~Alive)

\* main has returned after both workers uploaded a name
C25_Witness ==
    /\ tool.main.pc = "returned" /\ Len(tool.sent) >= 2
    /\ Len(tool.uploaded) = Len(tool.sent)
    /\ \A w \in 1..2 : \E u \in 1..Len(tool.uploaded) : tool.uploaded[u].by = w

====
